---- MODULE Spec2Model ----
(***************************************************************************)
(* A model of ai-localize: TextExtractor (src/src/utils/textExtractor.ts), *)
(* TranslationService and LocalizationService                              *)
(* (src/src/services/translationService.ts) and CacheService (the listing  *)
(* that closes src/README.md).                                             *)
(*                                                                         *)
(* A text is a sequence of one-character strings, so that trim(),          *)
(* toLowerCase(), startsWith() and the regular expressions are computed.   *)
(* A JSON value is a record [tag, s, keys, items].                         *)
(***************************************************************************)
EXTENDS Integers, Sequences, FiniteSets, TLC

(***************************************************************************)
(* Texts                                                                   *)
(***************************************************************************)
\* The value JavaScript calls undefined, where a text is expected.
Undefined == <<"undefined">>

UpperChars == <<"A","B","C","D","E","F","G","H","I","J","K","L","M",
                "N","O","P","Q","R","S","T","U","V","W","X","Y","Z">>
LowerChars == <<"a","b","c","d","e","f","g","h","i","j","k","l","m",
                "n","o","p","q","r","s","t","u","v","w","x","y","z">>
DigitChars == <<"0","1","2","3","4","5","6","7","8","9">>

Range(f) == { f[x] : x \in DOMAIN f }

IsSpace(c) == c = " "
IsDigit(c) == c \in Range(DigitChars)
IsHexChar(c) == \/ IsDigit(c)
                \/ c \in {"a","b","c","d","e","f"}
                \/ c \in {"A","B","C","D","E","F"}

\* String.prototype.toLowerCase
ToLowerChar(c) ==
  IF \E n \in DOMAIN UpperChars : UpperChars[n] = c
  THEN LowerChars[CHOOSE n \in DOMAIN UpperChars : UpperChars[n] = c]
  ELSE c
ToLowerCase(s) == [n \in DOMAIN s |-> ToLowerChar(s[n])]

\* String.prototype.trim
RECURSIVE TrimStart(_)
TrimStart(s) ==
  IF s # <<>> /\ IsSpace(Head(s)) THEN TrimStart(Tail(s)) ELSE s
RECURSIVE TrimEnd(_)
TrimEnd(s) ==
  IF s # <<>> /\ IsSpace(s[Len(s)]) THEN TrimEnd(SubSeq(s, 1, Len(s) - 1)) ELSE s
Trim(s) == TrimEnd(TrimStart(s))

\* String.prototype.startsWith
StartsWith(s, p) == Len(p) <= Len(s) /\ SubSeq(s, 1, Len(p)) = p

\* Array.prototype.includes
Includes(list, x) == \E n \in DOMAIN list : list[n] = x

\* /^[0-9a-fA-F]{24}$/
ObjectIdLength == 24
MatchesObjectId(s) ==
  Len(s) = ObjectIdLength /\ \A n \in DOMAIN s : IsHexChar(s[n])

\* /^https?:\/\//
MatchesUrl(s) ==
  \/ StartsWith(s, <<"h","t","t","p",":","/","/">>)
  \/ StartsWith(s, <<"h","t","t","p","s",":","/","/">>)

\* [^\s@]+
NoSpaceNoAt(s) == s # <<>> /\ \A n \in DOMAIN s : ~IsSpace(s[n]) /\ s[n] # "@"

\* /^[^\s@]+@[^\s@]+\.[^\s@]+$/
MatchesEmail(s) ==
  \E at \in DOMAIN s : \E dot \in DOMAIN s :
    /\ at < dot
    /\ s[at] = "@"
    /\ s[dot] = "."
    /\ NoSpaceNoAt(SubSeq(s, 1, at - 1))
    /\ NoSpaceNoAt(SubSeq(s, at + 1, dot - 1))
    /\ NoSpaceNoAt(SubSeq(s, dot + 1, Len(s)))

\* /^[\+]?[1-9][\d]{0,15}$/
PhoneMaxMoreDigits == 15
MatchesPhoneDigits(d) ==
  /\ d # <<>>
  /\ IsDigit(d[1]) /\ d[1] # "0"
  /\ Len(d) - 1 <= PhoneMaxMoreDigits
  /\ \A n \in DOMAIN d : IsDigit(d[n])
\* a phone pattern that asks for the leading +
MatchesPhone_PlusOnly(s) == s # <<>> /\ s[1] = "+" /\ MatchesPhoneDigits(Tail(s))
MatchesPhone(s) ==
  \/ MatchesPhoneDigits(s)
  \/ s # <<>> /\ s[1] = "+" /\ MatchesPhoneDigits(Tail(s))

\* TextExtractor.shouldTranslate
shouldTranslate(text) ==
  IF text = <<>> \/ text = Undefined THEN FALSE
  ELSE IF Trim(text) = <<>> THEN FALSE
  ELSE IF MatchesObjectId(text) THEN FALSE
  ELSE IF MatchesUrl(text) THEN FALSE
  ELSE IF MatchesEmail(text) THEN FALSE
  ELSE IF MatchesPhone(text) THEN FALSE
  ELSE TRUE

(***************************************************************************)
(* JSON values                                                             *)
(***************************************************************************)
Str(t)  == [tag |-> "string", s |-> t, keys |-> <<>>, items |-> <<>>]
Num(t)  == [tag |-> "number", s |-> t, keys |-> <<>>, items |-> <<>>]
Bool(t) == [tag |-> "boolean", s |-> t, keys |-> <<>>, items |-> <<>>]
Null    == [tag |-> "null", s |-> <<>>, keys |-> <<>>, items |-> <<>>]
Arr(xs) == [tag |-> "array", s |-> <<>>, keys |-> <<>>, items |-> xs]
Obj(ks, xs) == [tag |-> "object", s |-> <<>>, keys |-> ks, items |-> xs]

\* A selector list that is absent (undefined) or present.
Absent == [present |-> FALSE, list |-> <<>>]
Present(l) == [present |-> TRUE, list |-> l]

RECURSIVE Flatten(_)
Flatten(seqs) ==
  IF seqs = <<>> THEN <<>> ELSE Head(seqs) \o Flatten(Tail(seqs))

\* `${path}[${index}]`: n is the position counted from 1, index is n - 1
IndexPath(path, n) == path \o <<"[", DigitChars[n]>> \o <<"]">>

\* path ? `${path}.${key}` : key
KeyPath(path, key) == IF path # <<>> THEN path \o <<".">> \o key ELSE key

\* fields && !fields.some(field => currentPath.startsWith(field))
NotInFields(fields, currentPath) ==
  /\ fields.present
  /\ ~\E n \in DOMAIN fields.list : StartsWith(currentPath, fields.list[n])

\* excludeFields && excludeFields.includes(currentPath)
IsExcluded(excludeFields, currentPath) ==
  excludeFields.present /\ Includes(excludeFields.list, currentPath)

\* key.startsWith('_') || key === '__v'
IsInternalKey(key) == StartsWith(key, <<"_">>) \/ key = <<"_","_","v">>

\* The three early returns of the Object.keys(obj).forEach callback.
SkipKey(fields, excludeFields, key, currentPath) ==
  \/ IsExcluded(excludeFields, currentPath)
  \/ NotInFields(fields, currentPath)
  \/ IsInternalKey(key)

\* extractFromObject(obj, path): the texts pushed, each with the path it was
\* reached at, in the order of the pushes.
RECURSIVE extractFromObject(_, _, _, _)
extractFromObject(obj, path, fields, excludeFields) ==
  CASE obj.tag = "null" -> <<>>
    [] obj.tag = "string" ->
         IF Trim(obj.s) # <<>> /\ ~MatchesObjectId(obj.s)
         THEN << <<path, Trim(obj.s)>> >> ELSE <<>>
    [] obj.tag = "array" ->
         Flatten([n \in DOMAIN obj.items |->
           extractFromObject(obj.items[n], IndexPath(path, n), fields, excludeFields)])
    [] obj.tag = "object" ->
         Flatten([n \in DOMAIN obj.keys |->
           IF SkipKey(fields, excludeFields, obj.keys[n], KeyPath(path, obj.keys[n]))
           THEN <<>>
           ELSE extractFromObject(obj.items[n], KeyPath(path, obj.keys[n]),
                                  fields, excludeFields)])
    [] OTHER -> <<>>

\* TextExtractor.extractTextFromDocument
extractTextFromDocument(doc, opts) ==
  LET pushed == extractFromObject(doc, <<>>, opts.fields, opts.excludeFields)
  IN [n \in DOMAIN pushed |-> pushed[n][2]]

(***************************************************************************)
(* A JavaScript Map: a sequence of <<key, value>> in insertion order.      *)
(***************************************************************************)
EmptyMap == <<>>
MapHas(m, k) == \E n \in DOMAIN m : m[n][1] = k
MapGet(m, k) ==
  IF MapHas(m, k) THEN m[CHOOSE n \in DOMAIN m : m[n][1] = k][2] ELSE Undefined
MapSet(m, k, v) ==
  IF MapHas(m, k)
  THEN [n \in DOMAIN m |-> IF m[n][1] = k THEN <<k, v>> ELSE m[n]]
  ELSE Append(m, <<k, v>>)
MapKeys(m) == [n \in DOMAIN m |-> m[n][1]]
\* new Map([...a, ...b])
RECURSIVE MapSetAll(_, _)
MapSetAll(m, entries) ==
  IF entries = <<>> THEN m
  ELSE MapSetAll(MapSet(m, Head(entries)[1], Head(entries)[2]), Tail(entries))
MapUnion(a, b) == MapSetAll(MapSetAll(EmptyMap, a), b)

\* a value that `||` treats as false where a text is expected
Falsy(v) == v = Undefined \/ v = <<>>

\* A reconstruct that falls back to obj only when the mapping has no entry.
TranslateLeaf_HasEntry(translations, s) ==
  IF MapHas(translations, s) THEN MapGet(translations, s) ELSE s

\* A reconstruct that returns translations.get(obj) without the `|| obj`.
TranslateLeaf_NoFallback(translations, s) == MapGet(translations, s)

\* translations.get(obj) || obj
TranslateLeaf(translations, s) ==
  IF Falsy(MapGet(translations, s)) THEN s ELSE MapGet(translations, s)

\* reconstruct(obj, path)
RECURSIVE reconstruct(_, _, _, _, _)
reconstruct(obj, path, translations, fields, excludeFields) ==
  CASE obj.tag = "null" -> obj
    [] obj.tag = "string" -> Str(TranslateLeaf(translations, obj.s))
    [] obj.tag = "array" ->
         Arr([n \in DOMAIN obj.items |->
           reconstruct(obj.items[n], IndexPath(path, n), translations,
                       fields, excludeFields)])
    [] obj.tag = "object" ->
         Obj(obj.keys,
             [n \in DOMAIN obj.keys |->
               IF SkipKey(fields, excludeFields, obj.keys[n], KeyPath(path, obj.keys[n]))
               THEN obj.items[n]
               ELSE reconstruct(obj.items[n], KeyPath(path, obj.keys[n]),
                                translations, fields, excludeFields)])
    [] OTHER -> obj

\* A reconstructDocumentWithTranslations that leaves the selector out.
reconstructDocumentWithTranslations_NoSelector(originalDoc, translations, opts) ==
  reconstruct(originalDoc, <<>>, translations, Absent, Absent)

\* TextExtractor.reconstructDocumentWithTranslations
reconstructDocumentWithTranslations(originalDoc, translations, opts) ==
  reconstruct(originalDoc, <<>>, translations, opts.fields, opts.excludeFields)

(***************************************************************************)
(* CacheService                                                            *)
(***************************************************************************)
\* The printable ASCII characters, code 32 to code 126 (the double quote,
\* the backslash and the backquote are written as words).
AsciiPrintable ==
  <<" ","!","dquote","#","$","%","&","'","(",")","*","+",",","-",".","/">>
  \o DigitChars \o <<":",";","<","=",">","?","@">> \o UpperChars
  \o <<"[","bslash","]","^","_","bquote">> \o LowerChars \o <<"{","|","}","~">>
CharCode(c) == 31 + (CHOOSE n \in DOMAIN AsciiPrintable : AsciiPrintable[n] = c)

\* Buffer.from(text): the bytes of an ASCII text
BufferFrom(s) == [n \in DOMAIN s |-> CharCode(s[n])]

Base64Alphabet == UpperChars \o LowerChars \o DigitChars \o <<"+","/">>
Sextet(n) == Base64Alphabet[n + 1]

\* Buffer.prototype.toString, base64 encoding
RECURSIVE ToBase64(_)
ToBase64(bytes) ==
  IF bytes = <<>> THEN <<>>
  ELSE IF Len(bytes) = 1 THEN
    LET n == bytes[1] * 65536
    IN <<Sextet(n \div 262144), Sextet((n \div 4096) % 64), "=", "=">>
  ELSE IF Len(bytes) = 2 THEN
    LET n == bytes[1] * 65536 + bytes[2] * 256
    IN <<Sextet(n \div 262144), Sextet((n \div 4096) % 64),
         Sextet((n \div 64) % 64), "=">>
  ELSE
    LET n == bytes[1] * 65536 + bytes[2] * 256 + bytes[3]
    IN <<Sextet(n \div 262144), Sextet((n \div 4096) % 64),
         Sextet((n \div 64) % 64), Sextet(n % 64)>>
       \o ToBase64(SubSeq(bytes, 4, Len(bytes)))

KeyPrefix == <<"t","r","a","n","s","l","a","t","i","o","n",":">>

\* CacheService.generateCacheKey
generateCacheKey(text, sourceLanguage, targetLanguage) ==
  LET normalizedText == Trim(ToLowerCase(text))
  IN KeyPrefix \o sourceLanguage \o <<":">> \o targetLanguage \o <<":">>
     \o ToBase64(BufferFrom(normalizedText))

\* The CachedTranslation object built by cacheTranslation / cacheBatchTranslations.
CachedData(translatedText, timestamp, sourceLanguage, targetLanguage) ==
  [translatedText |-> translatedText, timestamp |-> timestamp,
   sourceLanguage |-> sourceLanguage, targetLanguage |-> targetLanguage]

\* JSON.stringify: a property whose value is undefined is left out.
JsonStringify(data) ==
  [props |-> IF data.translatedText = Undefined
             THEN {"timestamp", "sourceLanguage", "targetLanguage"}
             ELSE {"translatedText", "timestamp", "sourceLanguage", "targetLanguage"},
   translatedText |-> IF data.translatedText = Undefined THEN <<>>
                      ELSE data.translatedText,
   timestamp |-> data.timestamp,
   sourceLanguage |-> data.sourceLanguage,
   targetLanguage |-> data.targetLanguage]

\* JSON.parse(cached).translatedText
ParsedTranslatedText(json) ==
  IF "translatedText" \in json.props THEN json.translatedText ELSE Undefined

\* The store behind the redis client: key -> [value, expires].
EmptyStore == [k \in {} |-> [value |-> JsonStringify(CachedData(<<>>, 0, <<>>, <<>>)),
                              expires |-> 0]]
\* client.get(key) with a key that lives one second too long
StoreHas_Inclusive(store, key, time) == key \in DOMAIN store /\ store[key].expires >= time
\* client.get(key): a live key
StoreHas(store, key, time) == key \in DOMAIN store /\ store[key].expires > time
\* client.setEx(key, seconds, value)
StoreSetEx(store, key, seconds, value, time) ==
  (key :> [value |-> value, expires |-> time + seconds]) @@ store

\* CacheService.getCachedTranslation, the try block; null is Undefined here.
getCachedTranslation(store, time, text, sourceLanguage, targetLanguage) ==
  LET cacheKey == generateCacheKey(text, sourceLanguage, targetLanguage)
  IN IF StoreHas(store, cacheKey, time)
     THEN ParsedTranslatedText(store[cacheKey].value)
     ELSE Undefined

\* CacheService.cacheTranslation, the try block: the store afterwards.
cacheTranslation(store, time, text, translatedText, sourceLanguage, targetLanguage, expirationSeconds) ==
  StoreSetEx(store, generateCacheKey(text, sourceLanguage, targetLanguage),
             expirationSeconds,
             JsonStringify(CachedData(translatedText, time, sourceLanguage,
                                      targetLanguage)),
             time)

\* CacheService.getBatchCachedTranslations, the try block: results.
RECURSIVE getBatchCachedTranslations(_, _, _, _, _)
getBatchCachedTranslations(store, time, texts, sourceLanguage, targetLanguage) ==
  IF texts = <<>> THEN EmptyMap
  ELSE
    LET n == Len(texts)
        before == getBatchCachedTranslations(store, time, SubSeq(texts, 1, n - 1),
                                             sourceLanguage, targetLanguage)
        cacheKey == generateCacheKey(texts[n], sourceLanguage, targetLanguage)
    IN IF StoreHas(store, cacheKey, time)
       THEN MapSet(before, texts[n], ParsedTranslatedText(store[cacheKey].value))
       ELSE before

\* CacheService.cacheBatchTranslations, the try block: the store afterwards.
RECURSIVE cacheBatchTranslations(_, _, _, _, _, _)
cacheBatchTranslations(store, time, translations, sourceLanguage, targetLanguage, expirationSeconds) ==
  IF translations = <<>> THEN store
  ELSE cacheBatchTranslations(
         cacheTranslation(store, time, Head(translations)[1], Head(translations)[2],
                          sourceLanguage, targetLanguage, expirationSeconds),
         time, Tail(translations), sourceLanguage, targetLanguage, expirationSeconds)

\* the keys cacheBatchTranslations writes, in order
WrittenKeys(translations, sourceLanguage, targetLanguage) ==
  [n \in DOMAIN translations |->
     generateCacheKey(translations[n][1], sourceLanguage, targetLanguage)]

\* `translation:${sourceLanguage}:${targetLanguage}:*`, without the final *
ClearPattern(sourceLanguage, targetLanguage) ==
  KeyPrefix \o sourceLanguage \o <<":">> \o targetLanguage \o <<":">>

\* client.keys(pattern): no language code of the model holds a special
\* character of the glob syntax, so the pattern matches the keys that start
\* with what stands before its final *
Keys(store, pattern) == { key \in DOMAIN store : StartsWith(key, pattern) }

\* client.del(keys)
StoreDel(store, keys) == [key \in DOMAIN store \ keys |-> store[key]]

\* CacheService.clearCacheForLanguagePair, the try block: the store afterwards
clearCacheForLanguagePair(store, sourceLanguage, targetLanguage) ==
  StoreDel(store, Keys(store, ClearPattern(sourceLanguage, targetLanguage)))

\* A clearCache that, without a target language, removes every entry of the
\* source language.
clearCache_ClearsSource(store, sourceLang, targetLanguage) ==
  IF targetLanguage = Undefined \/ targetLanguage = <<>>
  THEN StoreDel(store, Keys(store, KeyPrefix \o sourceLang \o <<":">>))
  ELSE clearCacheForLanguagePair(store, sourceLang, targetLanguage)

\* LocalizationService.clearCache, the if on targetLanguage: the store afterwards
clearCache(store, sourceLang, targetLanguage) ==
  IF targetLanguage = Undefined \/ targetLanguage = <<>>
  THEN store
  ELSE clearCacheForLanguagePair(store, sourceLang, targetLanguage)

(***************************************************************************)
(* Configuration and inputs                                                *)
(***************************************************************************)
en == <<"e","n">>
es == <<"e","s">>
fr == <<"f","r">>

\* LocalizationService constructor: the defaults
DefaultCacheExpiration == 86400
DefaultBatchSize == 10

Providers == {"openai", "google", "azure", "gemini"}

\* the merged this.config of the constructor; batchSize 0 stands for a falsy value
Config(provider, batchSize) ==
  [aiProvider |-> provider, sourceLanguage |-> en,
   cacheExpiration |-> DefaultCacheExpiration, batchSize |-> batchSize]

\* the largest configured batchSize of the model
MaxBatchSize == 2
Configs ==
  { Config("openai", b) : b \in 1..MaxBatchSize }
  \cup { Config(p, DefaultBatchSize) : p \in Providers \ {"openai"} }

\* this.config.sourceLanguage || 'en'
SourceLanguage(cfg) ==
  IF cfg.sourceLanguage = <<>> THEN en ELSE cfg.sourceLanguage

\* this.config.batchSize || 10
BatchSize(cfg) == IF cfg.batchSize = 0 THEN DefaultBatchSize ELSE cfg.batchSize

TargetLanguages == {es}

Hi == <<"H","i">>
hi == <<"h","i">>
HiSpace == <<"H","i"," ">>
Yo == <<"Y","o">>
Hello == <<"H","e","l","l","o">>
Blank == <<" ">>
Phone == <<"5">>
Url == <<"h","t","t","p",":","/","/","x">>
Email == <<"a","@","b",".","c">>
ObjectId == <<"5","0","7","f","1","f","7","7","b","c","f","8",
              "6","c","d","7","9","9","4","3","9","0","1","1">>
Price == Num(<<"1","9","9",".","9","9">>)

kA == <<"a">>
kB == <<"b">>
kC == <<"c">>
kInternal == <<"_","x">>

NoOptions == [fields |-> Absent, excludeFields |-> Absent]

\* {name: "Hello", id: "507f1f77bcf86cd799439011", price: 199.99}
EndToEndDoc ==
  Obj(<< <<"n","a","m","e">>, <<"i","d">>, <<"p","r","i","c","e">> >>,
      << Str(Hello), Str(ObjectId), Price >>)

\* {a: {b: {c: "Hi"}, c: "Yo"}}
NestedDoc ==
  Obj(<<kA>>, << Obj(<<kB, kC>>, << Obj(<<kC>>, <<Str(Hi)>>), Str(Yo) >>) >>)

\* {_x: "Hi", a: "Hi"}
InternalDoc == Obj(<<kInternal, kA>>, << Str(Hi), Str(Hi) >>)

\* {a: ["Hi", "Yo", "Hi"]}
RepeatDoc == Obj(<<kA>>, << Arr(<< Str(Hi), Str(Yo), Str(Hi) >>) >>)

\* fields: ["a"], excludeFields: ["a.b"]
PrecedenceOptions ==
  [fields |-> Present(<<kA>>), excludeFields |-> Present(<< kA \o <<".">> \o kB >>)]

\* the leaves of the documents handed to translateDocument
PipelineLeaves == { Str(Hi), Str(hi), Str(HiSpace), Str(Phone) }

\* {a: [v, w]}, and the two documents the specification names
PipelineDocuments ==
  { Obj(<<kA>>, <<Arr(<<v, w>>)>>) : v \in PipelineLeaves, w \in PipelineLeaves }
  \cup { EndToEndDoc, NestedDoc, InternalDoc, RepeatDoc }

PipelineOptions ==
  { NoOptions,
    PrecedenceOptions,
    [fields |-> Absent, excludeFields |-> Present(<< kA \o <<"[","0","]">> >>)] }

PipelineTexts == { Hi, HiSpace, Phone }

(***************************************************************************)
(* The translation backend (the provider behind axios.post)                *)
(***************************************************************************)
\* Marks of the wordings the provider may choose for one text.
Variants == {"x"}

\* what the provider may answer for one text: a wording of it, or nothing
ItemOptions(t) == { <<v>> \o t : v \in Variants } \cup { <<>> }

RECURSIVE FullResponses(_)
FullResponses(batch) ==
  IF batch = <<>> THEN { <<>> }
  ELSE { <<x>> \o r : x \in ItemOptions(Head(batch)), r \in FullResponses(Tail(batch)) }

\* the array of a well-formed response: one item per text, or one item short
Responses(batch) ==
  FullResponses(batch) \cup FullResponses(SubSeq(batch, 1, Len(batch) - 1))

\* Array.prototype.slice(from, to), both counted from 0
\* (a negative index counts from the end, an index beyond an end stops there)
Slice(list, from, to) ==
  LET len == Len(list)
      Relative(k) == IF k < 0 THEN (IF len + k < 0 THEN 0 ELSE len + k)
                     ELSE (IF k > len THEN len ELSE k)
  IN IF Relative(from) >= Relative(to) THEN <<>>
     ELSE SubSeq(list, Relative(from) + 1, Relative(to))

\* batch.forEach((text, index) => translations.set(text, translatedBatch[index]))
RECURSIVE SetBatch(_, _, _, _)
SetBatch(map, batch, translatedBatch, n) ==
  IF n > Len(batch) THEN map
  ELSE SetBatch(MapSet(map, batch[n],
                       IF n <= Len(translatedBatch) THEN translatedBatch[n]
                       ELSE Undefined),
                batch, translatedBatch, n + 1)

\* translateDocument: the candidate texts
CandidateTexts(doc, opts) ==
  SelectSeq(extractTextFromDocument(doc, opts), shouldTranslate)

\* A translateDocument that hands every candidate text to translateBatch,
\* cache hit or not.
TextsToTranslate_Unfiltered(list, cached) == list

\* translateDocument: texts.filter(text => !cachedTranslations.has(text))
TextsToTranslate(list, cached) ==
  LET Missing(t) == ~MapHas(cached, t) IN SelectSeq(list, Missing)

\* translateDocument: combine all translations and reconstruct
Reconstructed(doc, cached, fresh, opts) ==
  reconstructDocumentWithTranslations(doc, MapUnion(cached, fresh), opts)

(***************************************************************************)
(* LocalizationService: the state                                          *)
(***************************************************************************)
VARIABLES
  config,             \* LocalizationService.config
  store,              \* the keys held by the redis server
  time,               \* seconds since the service was constructed
  isConnected,        \* CacheService.isConnected
  pc,                 \* where the call in flight waits
  document,           \* translateDocument: document
  text,               \* translateText: text
  targetLanguage,     \* targetLanguage of the call in flight
  options,            \* translateDocument: options
  texts,              \* translateDocument: texts
  cachedTranslations, \* translateDocument: cachedTranslations
  textsToTranslate,   \* translateDocument: textsToTranslate
  translations,       \* translateBatch: translations
  newTranslations,    \* translateDocument: newTranslations
  i,                  \* translateBatchWithOpenAI: i
  allTranslations,    \* translateDocument: allTranslations
  result,             \* what the call returned
  lookupArgs,         \* the lists handed to getBatchCachedTranslations by this call
  batchArgs,          \* the lists handed to translateBatch by this call
  requests,           \* the batches posted to the provider by this call
  written,            \* the cache keys written by this call
  failedOps,          \* the cache operations of this call that threw
  calls,              \* calls completed so far
  prev,               \* the call completed last
  returned,           \* translateDocument: the record it returned, "document" for
                      \* its argument itself, "result" for one reconstruct built
  answers,            \* the arrays the provider answered to this call's requests
  caller,             \* the method that awaits the translateDocument in flight
  documents,          \* translateDocuments / translateWithProgress: documents
  results,            \* translateDocuments / translateWithProgress: results
  events,             \* what the caller of that method saw happen, in order
  parked,             \* the locals of the other call in flight
  puts,               \* the cacheTranslation calls made on the CacheService
                      \* itself that the server accepted, in order
  cacheCall,          \* the last call made on the CacheService itself
  client,             \* the Redis client's socket: closed, opening or open
  ops                 \* the CacheService operations in flight and where each is

vars == << config, store, time, isConnected, pc, document, text, targetLanguage,
           options, texts, cachedTranslations, textsToTranslate, translations,
           newTranslations, i, allTranslations, result, lookupArgs, batchArgs,
           requests, written, failedOps, calls, prev, returned, answers, caller,
           documents, results, events, parked, puts, cacheCall, client, ops >>

\* what the single calls leave alone
others == << caller, documents, results, events, parked, puts, cacheCall, client, ops >>

\* How many calls one behaviour makes: the caller makes a call and then
\* repeats it with the same arguments.
MaxCalls == 2

NoResult == [tag |-> "none", s |-> <<>>, keys |-> <<>>, items |-> <<>>]

\* TranslationResponse, as a JSON value: keys and items
Response(translatedText, src, tgt, cached) ==
  [tag |-> "response", s |-> translatedText,
   keys |-> <<src, tgt>>,
   items |-> <<Bool(IF cached THEN <<"t">> ELSE <<"f">>)>>]

NoCall == [pc |-> "none", document |-> Null, text |-> <<>>, targetLanguage |-> <<>>,
           options |-> NoOptions, result |-> NoResult, requests |-> <<>>,
           failedOps |-> {}]

\* the texts an earlier run of the service may have left in the cache
SeedMaps ==
  { EmptyMap,
    << <<Hi, <<"x">> \o Hi>> >>,
    << <<hi, <<"y">> \o hi>> >> }
InitStores ==
  { cacheBatchTranslations(EmptyStore, 0, m, en, es, DefaultCacheExpiration)
      : m \in SeedMaps }

Locals0 ==
  /\ texts = <<>>
  /\ cachedTranslations = EmptyMap
  /\ textsToTranslate = <<>>
  /\ translations = EmptyMap
  /\ newTranslations = EmptyMap
  /\ i = 0
  /\ allTranslations = EmptyMap
  /\ result = NoResult
  /\ lookupArgs = <<>>
  /\ batchArgs = <<>>
  /\ requests = <<>>
  /\ written = <<>>
  /\ failedOps = {}
  /\ returned = "none"
  /\ answers = <<>>

\* the locals of a call that has not started
Parked0 ==
  [pc |-> "idle", document |-> Null, text |-> <<>>, targetLanguage |-> <<>>,
   options |-> NoOptions, texts |-> <<>>, cachedTranslations |-> EmptyMap,
   textsToTranslate |-> <<>>, translations |-> EmptyMap,
   newTranslations |-> EmptyMap, i |-> 0, allTranslations |-> EmptyMap,
   result |-> NoResult, lookupArgs |-> <<>>, batchArgs |-> <<>>, requests |-> <<>>,
   written |-> <<>>, failedOps |-> {}, returned |-> "none", answers |-> <<>>]

NoCacheCall ==
  [op |-> "none", text |-> <<>>, sourceLanguage |-> <<>>, targetLanguage |-> <<>>,
   failed |-> FALSE]

\* how many CacheService operations are in flight together
MaxOps == 2

\* an operation nobody has called
NoOp == [op |-> "none", pc |-> "idle", duplicate |-> FALSE, outcome |-> "none"]
Ops0 == [o \in 1..MaxOps |-> NoOp]

Others0 ==
  /\ caller = "none"
  /\ documents = <<>>
  /\ results = <<>>
  /\ events = <<>>
  /\ parked = Parked0
  /\ puts = <<>>
  /\ cacheCall = NoCacheCall
  /\ client = "closed"
  /\ ops = Ops0

Init ==
  /\ config \in Configs
  /\ store \in InitStores
  /\ time = 0
  /\ isConnected = FALSE
  /\ pc = "idle"
  /\ document = Null
  /\ text = <<>>
  /\ targetLanguage = <<>>
  /\ options = NoOptions
  /\ Locals0
  /\ Others0
  /\ calls = 0
  /\ prev = NoCall

(***************************************************************************)
(* LocalizationService.translateDocument                                   *)
(***************************************************************************)
\* The call, up to the first await.
TD_Call(doc, tgt, opts) ==
  /\ pc = "idle"
  /\ calls < MaxCalls
  /\ prev.pc # "none" =>
       /\ prev.pc \in {"td.done", "td.failed"}
       /\ doc = prev.document /\ tgt = prev.targetLanguage /\ opts = prev.options
  /\ document' = doc
  /\ targetLanguage' = tgt
  /\ options' = opts
  /\ texts' = CandidateTexts(doc, opts)
  /\ IF texts' = <<>>
     THEN /\ result' = doc
          /\ returned' = "document"
          /\ pc' = "td.done"
          /\ lookupArgs' = lookupArgs
     ELSE /\ result' = result
          /\ returned' = returned
          /\ pc' = "td.getBatch"
          /\ lookupArgs' = Append(lookupArgs, texts')
  /\ UNCHANGED << config, store, time, isConnected, text, cachedTranslations,
                  textsToTranslate, translations, newTranslations, i,
                  allTranslations, batchArgs, requests, written, failedOps,
                  calls, prev, answers, others >>

\* translateBatch: the switch on aiProvider and the first request.
\* Returns the next pc and the first batch posted (none for an unknown provider).
FirstBatch(cfg, list) ==
  IF cfg.aiProvider = "openai" THEN Slice(list, 0, BatchSize(cfg))
  ELSE list
\* a switch that takes every provider name
Supported_Lenient(cfg) == cfg.aiProvider \in Providers
Supported(cfg) == cfg.aiProvider \in {"openai", "google", "azure"}

\* getBatchCachedTranslations has settled (ok: its try block did not throw).
TD_GetBatch(ok) ==
  /\ pc = "td.getBatch"
  /\ isConnected' = ok
  /\ failedOps' = IF ok THEN failedOps ELSE failedOps \cup {"getBatchCachedTranslations"}
  /\ cachedTranslations' =
       IF ok THEN getBatchCachedTranslations(store, time, texts,
                                             SourceLanguage(config), targetLanguage)
       ELSE EmptyMap
  /\ textsToTranslate' = TextsToTranslate(texts, cachedTranslations')
  /\ IF textsToTranslate' = <<>>
     THEN /\ allTranslations' = MapUnion(cachedTranslations', newTranslations)
          /\ result' = Reconstructed(document, cachedTranslations', newTranslations,
                                     options)
          /\ returned' = "result"
          /\ pc' = "td.done"
          /\ UNCHANGED << batchArgs, requests >>
     ELSE /\ batchArgs' = Append(batchArgs, textsToTranslate')
          /\ IF Supported(config)
             THEN /\ requests' = Append(requests, FirstBatch(config, textsToTranslate'))
                  /\ pc' = "td.request"
             ELSE /\ requests' = requests
                  /\ pc' = "td.failed"
          /\ UNCHANGED << allTranslations, result, returned >>
  /\ UNCHANGED << config, store, time, document, text, targetLanguage, options,
                  texts, translations, newTranslations, i, lookupArgs, written,
                  calls, prev, answers, others >>

\* translateBatchWithOpenAI: the response of the chunk at i has arrived.
TD_ChunkResponse ==
  /\ pc = "td.request"
  /\ config.aiProvider = "openai"
  /\ LET batch == Slice(textsToTranslate, i, i + BatchSize(config))
     IN \E translatedBatch \in Responses(batch) :
          /\ translations' = SetBatch(translations, batch, translatedBatch, 1)
          /\ answers' = Append(answers, translatedBatch)
  /\ IF i + BatchSize(config) < Len(textsToTranslate)
     THEN /\ pc' = "td.delay"
          /\ newTranslations' = newTranslations
     ELSE /\ pc' = "td.cacheBatch"
          /\ newTranslations' = translations'
  /\ UNCHANGED << config, store, time, isConnected, document, text, targetLanguage,
                  options, texts, cachedTranslations, textsToTranslate, i,
                  allTranslations, result, lookupArgs, batchArgs, requests, written,
                  failedOps, calls, prev, returned, others >>

\* how many requests of one translateBatch call the model follows
MaxRequests == 4

\* translateBatchWithOpenAI: the delay between two chunks has passed.
TD_Delay ==
  /\ pc = "td.delay"
  /\ Len(requests) < MaxRequests
  /\ i' = i + BatchSize(config)
  /\ requests' = Append(requests, Slice(textsToTranslate, i', i' + BatchSize(config)))
  /\ pc' = "td.request"
  /\ UNCHANGED << config, store, time, isConnected, document, text, targetLanguage,
                  options, texts, cachedTranslations, textsToTranslate, translations,
                  newTranslations, allTranslations, result, lookupArgs, batchArgs,
                  written, failedOps, calls, prev, returned, answers, others >>

\* translateBatchWithGoogle / translateBatchWithAzure: the response has arrived.
\* Reading a property of a missing item throws a TypeError.
TD_BulkResponse ==
  /\ pc = "td.request"
  /\ config.aiProvider \in {"google", "azure"}
  /\ \E translatedBatch \in Responses(textsToTranslate) :
       /\ answers' = Append(answers, translatedBatch)
       /\ IF Len(translatedBatch) < Len(textsToTranslate)
          THEN /\ pc' = "td.failed"
               /\ UNCHANGED << translations, newTranslations >>
          ELSE /\ translations' = SetBatch(translations, textsToTranslate,
                                           translatedBatch, 1)
               /\ newTranslations' = translations'
               /\ pc' = "td.cacheBatch"
  /\ UNCHANGED << config, store, time, isConnected, document, text, targetLanguage,
                  options, texts, cachedTranslations, textsToTranslate, i,
                  allTranslations, result, lookupArgs, batchArgs, requests, written,
                  failedOps, calls, prev, returned, others >>

\* A translateDocument that, when translateBatch throws, returns the document
\* reconstructed with the chunks translated so far.
TD_BackendError_ReturnsPartial ==
  /\ pc = "td.request"
  /\ pc' = "td.done"
  /\ allTranslations' = MapUnion(cachedTranslations, translations)
  /\ result' = Reconstructed(document, cachedTranslations, translations, options)
  /\ returned' = "result"
  /\ UNCHANGED << config, store, time, isConnected, document, text, targetLanguage,
                  options, texts, cachedTranslations, textsToTranslate, translations,
                  newTranslations, i, lookupArgs, batchArgs, requests, written,
                  failedOps, calls, prev, answers, others >>

\* A translateBatch that stores the chunks translated so far before it rethrows.
TD_BackendError_CachesChunks ==
  /\ pc = "td.request"
  /\ pc' = "td.failed"
  /\ store' = cacheBatchTranslations(store, time, translations,
                                     SourceLanguage(config), targetLanguage,
                                     config.cacheExpiration)
  /\ written' = written \o WrittenKeys(translations, SourceLanguage(config),
                                       targetLanguage)
  /\ UNCHANGED << config, time, isConnected, document, text, targetLanguage,
                  options, texts, cachedTranslations, textsToTranslate, translations,
                  newTranslations, i, allTranslations, result, lookupArgs, batchArgs,
                  requests, failedOps, calls, prev, returned, answers, others >>

\* translateBatch: the request threw (network error, error status, a body that
\* JSON.parse rejects); the catch block rethrows.
TD_BackendError ==
  /\ pc = "td.request"
  /\ pc' = "td.failed"
  /\ UNCHANGED << config, store, time, isConnected, document, text, targetLanguage,
                  options, texts, cachedTranslations, textsToTranslate, translations,
                  newTranslations, i, allTranslations, result, lookupArgs, batchArgs,
                  requests, written, failedOps, calls, prev, returned, answers, others >>

\* A cacheBatchTranslations without its catch block: the rejection reaches the
\* caller of translateDocument.
TD_CacheBatch_Rethrows(ok) ==
  /\ pc = "td.cacheBatch"
  /\ isConnected' = ok
  /\ failedOps' = IF ok THEN failedOps ELSE failedOps \cup {"cacheBatchTranslations"}
  /\ store' = IF ok
              THEN cacheBatchTranslations(store, time, newTranslations,
                                          SourceLanguage(config), targetLanguage,
                                          config.cacheExpiration)
              ELSE store
  /\ written' = IF ok
                THEN written \o WrittenKeys(newTranslations, SourceLanguage(config),
                                            targetLanguage)
                ELSE written
  /\ IF ok
     THEN /\ allTranslations' = MapUnion(cachedTranslations, newTranslations)
          /\ result' = Reconstructed(document, cachedTranslations, newTranslations,
                                     options)
          /\ returned' = "result"
          /\ pc' = "td.done"
     ELSE /\ UNCHANGED << allTranslations, result, returned >>
          /\ pc' = "td.failed"
  /\ UNCHANGED << config, time, document, text, targetLanguage, options, texts,
                  cachedTranslations, textsToTranslate, translations,
                  newTranslations, i, lookupArgs, batchArgs, requests, calls, prev,
                  answers, others >>

\* cacheBatchTranslations has settled (ok: its try block did not throw).
TD_CacheBatch(ok) ==
  /\ pc = "td.cacheBatch"
  /\ isConnected' = ok
  /\ failedOps' = IF ok THEN failedOps ELSE failedOps \cup {"cacheBatchTranslations"}
  /\ store' = IF ok
              THEN cacheBatchTranslations(store, time, newTranslations,
                                          SourceLanguage(config), targetLanguage,
                                          config.cacheExpiration)
              ELSE store
  /\ written' = IF ok
                THEN written \o WrittenKeys(newTranslations, SourceLanguage(config),
                                            targetLanguage)
                ELSE written
  /\ allTranslations' = MapUnion(cachedTranslations, newTranslations)
  /\ result' = Reconstructed(document, cachedTranslations, newTranslations, options)
  /\ returned' = "result"
  /\ pc' = "td.done"
  /\ UNCHANGED << config, time, document, text, targetLanguage, options, texts,
                  cachedTranslations, textsToTranslate, translations,
                  newTranslations, i, lookupArgs, batchArgs, requests, calls, prev,
                  answers, others >>

(***************************************************************************)
(* LocalizationService.translateText                                       *)
(***************************************************************************)
\* The call, up to the first await.
TT_Call(t, tgt) ==
  /\ pc = "idle"
  /\ calls < MaxCalls
  /\ prev.pc # "none" =>
       /\ prev.pc \in {"tt.done", "tt.failed"}
       /\ t = prev.text /\ tgt = prev.targetLanguage
  /\ text' = t
  /\ targetLanguage' = tgt
  /\ pc' = "tt.getCached"
  /\ UNCHANGED << config, store, time, isConnected, document, options, texts,
                  cachedTranslations, textsToTranslate, translations,
                  newTranslations, i, allTranslations, result, lookupArgs,
                  batchArgs, requests, written, failedOps, calls, prev, returned, answers, others >>

\* getCachedTranslation has settled (ok: its try block did not throw).
TT_GetCached(ok) ==
  /\ pc = "tt.getCached"
  /\ isConnected' = ok
  /\ failedOps' = IF ok THEN failedOps ELSE failedOps \cup {"getCachedTranslation"}
  /\ LET cachedTranslation ==
           IF ok THEN getCachedTranslation(store, time, text, SourceLanguage(config),
                                           targetLanguage)
           ELSE Undefined
     IN IF ~Falsy(cachedTranslation)
        THEN /\ result' = Response(cachedTranslation, SourceLanguage(config),
                                   targetLanguage, TRUE)
             /\ pc' = "tt.done"
             /\ requests' = requests
        ELSE /\ result' = result
             /\ IF Supported(config)
                THEN /\ requests' = Append(requests, <<text>>)
                     /\ pc' = "tt.request"
                ELSE /\ requests' = requests
                     /\ pc' = "tt.failed"
  /\ UNCHANGED << config, store, time, document, text, targetLanguage, options,
                  texts, cachedTranslations, textsToTranslate, translations,
                  newTranslations, i, allTranslations, lookupArgs, batchArgs,
                  written, calls, prev, returned, answers, others >>

\* translateWithOpenAI trims the content; the other providers return it as it is
TranslatedText(cfg, content) ==
  IF cfg.aiProvider = "openai" THEN Trim(content) ELSE content

\* TranslationService.translateText: the response has arrived; the translation
\* is kept in newTranslations until the call returns.
TT_Response(content) ==
  /\ pc = "tt.request"
  /\ content \in ItemOptions(text)
  /\ newTranslations' = MapSet(EmptyMap, text, TranslatedText(config, content))
  /\ answers' = Append(answers, <<content>>)
  /\ pc' = "tt.cache"
  /\ UNCHANGED << config, store, time, isConnected, document, text, targetLanguage,
                  options, texts, cachedTranslations, textsToTranslate, translations,
                  i, allTranslations, result, lookupArgs, batchArgs, requests,
                  written, failedOps, calls, prev, returned, others >>

\* TranslationService.translateText: the request threw; the catch block rethrows.
TT_BackendError ==
  /\ pc = "tt.request"
  /\ pc' = "tt.failed"
  /\ UNCHANGED << config, store, time, isConnected, document, text, targetLanguage,
                  options, texts, cachedTranslations, textsToTranslate, translations,
                  newTranslations, i, allTranslations, result, lookupArgs, batchArgs,
                  requests, written, failedOps, calls, prev, returned, answers, others >>

\* cacheTranslation has settled (ok: its try block did not throw).
TT_Cache(ok) ==
  /\ pc = "tt.cache"
  /\ isConnected' = ok
  /\ failedOps' = IF ok THEN failedOps ELSE failedOps \cup {"cacheTranslation"}
  /\ store' = IF ok
              THEN cacheTranslation(store, time, text, MapGet(newTranslations, text),
                                    SourceLanguage(config), targetLanguage,
                                    config.cacheExpiration)
              ELSE store
  /\ written' = IF ok
                THEN Append(written, generateCacheKey(text, SourceLanguage(config),
                                                      targetLanguage))
                ELSE written
  /\ result' = Response(MapGet(newTranslations, text), SourceLanguage(config),
                        targetLanguage, FALSE)
  /\ pc' = "tt.done"
  /\ UNCHANGED << config, time, document, text, targetLanguage, options, texts,
                  cachedTranslations, textsToTranslate, translations,
                  newTranslations, i, allTranslations, lookupArgs, batchArgs,
                  requests, calls, prev,
                  returned, answers, others >>

(***************************************************************************)
(* The caller                                                              *)
(***************************************************************************)
Settled == {"td.done", "td.failed", "tt.done", "tt.failed"}

\* The caller has the outcome of the call; the service is ready for the next one.
Return ==
  /\ pc \in Settled
  /\ prev' = [pc |-> pc, document |-> document, text |-> text,
              targetLanguage |-> targetLanguage, options |-> options,
              result |-> result, requests |-> requests,
              failedOps |-> failedOps]
  /\ calls' = calls + 1
  /\ pc' = "idle"
  /\ document' = Null
  /\ text' = <<>>
  /\ targetLanguage' = <<>>
  /\ options' = NoOptions
  /\ texts' = <<>>
  /\ cachedTranslations' = EmptyMap
  /\ textsToTranslate' = <<>>
  /\ translations' = EmptyMap
  /\ newTranslations' = EmptyMap
  /\ i' = 0
  /\ allTranslations' = EmptyMap
  /\ result' = NoResult
  /\ lookupArgs' = <<>>
  /\ batchArgs' = <<>>
  /\ requests' = <<>>
  /\ written' = <<>>
  /\ failedOps' = {}
  /\ returned' = "none"
  /\ answers' = <<>>
  /\ caller' = "none"
  /\ documents' = <<>>
  /\ results' = <<>>
  /\ events' = <<>>
  /\ UNCHANGED << config, store, time, isConnected, parked, puts, cacheCall, client, ops >>

Next ==
  \/ \E doc \in PipelineDocuments, tgt \in TargetLanguages, opts \in PipelineOptions :
       TD_Call(doc, tgt, opts)
  \/ \E ok \in BOOLEAN : TD_GetBatch(ok)
  \/ TD_ChunkResponse
  \/ TD_Delay
  \/ TD_BulkResponse
  \/ TD_BackendError
  \/ \E ok \in BOOLEAN : TD_CacheBatch(ok)
  \/ \E t \in PipelineTexts, tgt \in TargetLanguages : TT_Call(t, tgt)
  \/ \E ok \in BOOLEAN : TT_GetCached(ok)
  \/ \E content \in ItemOptions(text) : TT_Response(content)
  \/ TT_BackendError
  \/ \E ok \in BOOLEAN : TT_Cache(ok)
  \/ Return

Spec == Init /\ [][Next]_vars

(***************************************************************************)
(* TextExtractor called on its own: extractTextFromDocument and then       *)
(* reconstructDocumentWithTranslations, on a record, a selector and a      *)
(* mapping.                                                                *)
(***************************************************************************)
\* how deep the containers of a generated record nest
MaxDepth == 1

RecordKeys == { kA, kB, kInternal }
RecordLeaves == { Str(Hi), Str(HiSpace), Num(<<"7">>), Null }

\* leaves; [x]; [leaf, x]; {k: x}; {k1: x, k2: leaf}
RECURSIVE Records(_)
Records(depth) ==
  IF depth = 0 THEN RecordLeaves
  ELSE LET sub == Records(depth - 1)
       IN RecordLeaves
          \cup { Arr(<<x>>) : x \in sub }
          \cup { Arr(<<l, x>>) : l \in RecordLeaves, x \in sub }
          \cup { Obj(<<k>>, <<x>>) : k \in RecordKeys, x \in sub }
          \cup { Obj(<<kk[1], kk[2]>>, <<x, l>>) :
                   kk \in { p \in RecordKeys \X RecordKeys : p[1] # p[2] },
                   x \in sub, l \in RecordLeaves }

\* the generated records, and the documents handed to translateDocument
ExtractorDocuments == Records(MaxDepth) \cup PipelineDocuments

pathAB == kA \o <<".">> \o kB
pathA0 == kA \o <<"[","0","]">>

ExtractorOptions ==
  { [fields |-> f, excludeFields |-> e] :
      f \in { Absent, Present(<<>>), Present(<<kA>>), Present(<<pathAB>>),
              Present(<<kB>>) },
      e \in { Absent, Present(<<pathAB>>), Present(<<pathA0>>), Present(<<kA>>) } }

ExtractorMappings ==
  { EmptyMap,
    << <<Hi, <<"x">> \o Hi>> >>,
    << <<Hi, <<>> >> >>,
    << <<Hi, Undefined>>, <<Yo, <<"x">> \o Yo>> >> }

InitExtractor ==
  /\ config = Config("openai", DefaultBatchSize)
  /\ store = EmptyStore
  /\ time = 0
  /\ isConnected = FALSE
  /\ pc = "te.ready"
  /\ document \in ExtractorDocuments
  /\ options \in ExtractorOptions
  /\ allTranslations \in ExtractorMappings
  /\ text = <<>>
  /\ targetLanguage = <<>>
  /\ texts = <<>>
  /\ cachedTranslations = EmptyMap
  /\ textsToTranslate = <<>>
  /\ translations = EmptyMap
  /\ newTranslations = EmptyMap
  /\ i = 0
  /\ result = NoResult
  /\ lookupArgs = <<>>
  /\ batchArgs = <<>>
  /\ requests = <<>>
  /\ written = <<>>
  /\ failedOps = {}
  /\ returned = "none"
  /\ answers = <<>>
  /\ Others0
  /\ calls = 0
  /\ prev = NoCall

\* TextExtractor.extractTextFromDocument(document, options)
TE_Extract ==
  /\ pc = "te.ready"
  /\ texts' = extractTextFromDocument(document, options)
  /\ pc' = "te.extracted"
  /\ UNCHANGED << config, store, time, isConnected, document, text, targetLanguage,
                  options, cachedTranslations, textsToTranslate, translations,
                  newTranslations, i, allTranslations, result, lookupArgs,
                  batchArgs, requests, written, failedOps, calls, prev, returned, answers, others >>

\* TextExtractor.reconstructDocumentWithTranslations(document, allTranslations, options)
TE_Reconstruct ==
  /\ pc = "te.extracted"
  /\ result' = reconstructDocumentWithTranslations(document, allTranslations, options)
  /\ pc' = "te.reconstructed"
  /\ UNCHANGED << config, store, time, isConnected, document, text, targetLanguage,
                  options, texts, cachedTranslations, textsToTranslate, translations,
                  newTranslations, i, allTranslations, lookupArgs, batchArgs,
                  requests, written, failedOps, calls, prev, returned, answers, others >>

NextExtractor == TE_Extract \/ TE_Reconstruct

SpecExtractor == InitExtractor /\ [][NextExtractor]_vars

(***************************************************************************)
(* LocalizationService.translateDocuments and translateWithProgress: the   *)
(* loops that await one translateDocument after the other.                 *)
(***************************************************************************)
\* {a: "+15551234567"}: nothing to translate
NoTextDoc == Obj(<<kA>>, << Str(Phone) >>)

\* the lists of documents handed to the two methods
DocumentLists ==
  { <<>>,
    << EndToEndDoc >>,
    << NestedDoc, EndToEndDoc >>,
    << NoTextDoc, EndToEndDoc >>,
    << EndToEndDoc, NoTextDoc, EndToEndDoc >> }

\* translateDocuments, translateWithProgress with options.onProgress, and
\* translateWithProgress without it
Callers == { "translateDocuments", "translateWithProgress", "translateWithProgress.plain" }

\* batchSize 1 posts NestedDoc's two texts in two requests
DocumentsConfigs == { Config("openai", 1), Config("google", DefaultBatchSize) }

Event(op, k, total) == [op |-> op, k |-> k, total |-> total]

InitDocuments ==
  /\ config \in DocumentsConfigs
  /\ store = EmptyStore
  /\ time = 0
  /\ isConnected = FALSE
  /\ pc = "idle"
  /\ document = Null
  /\ text = <<>>
  /\ targetLanguage = <<>>
  /\ options = NoOptions
  /\ Locals0
  /\ Others0
  /\ calls = 0
  /\ prev = NoCall

\* this.translateDocument(doc, tgt, opts) called from the loop: a new call with
\* locals of its own, up to its first await
StartDocument(doc, tgt, opts) ==
  /\ document' = doc
  /\ targetLanguage' = tgt
  /\ options' = opts
  /\ texts' = CandidateTexts(doc, opts)
  /\ IF texts' = <<>>
     THEN /\ result' = doc
          /\ returned' = "document"
          /\ pc' = "td.done"
          /\ lookupArgs' = <<>>
     ELSE /\ result' = NoResult
          /\ returned' = "none"
          /\ pc' = "td.getBatch"
          /\ lookupArgs' = << texts' >>
  /\ cachedTranslations' = EmptyMap
  /\ textsToTranslate' = <<>>
  /\ translations' = EmptyMap
  /\ newTranslations' = EmptyMap
  /\ i' = 0
  /\ allTranslations' = EmptyMap
  /\ batchArgs' = <<>>
  /\ requests' = <<>>
  /\ written' = <<>>
  /\ failedOps' = {}
  /\ answers' = <<>>

\* the locals of translateDocument, which the loop itself does not touch
documentVars == << document, targetLanguage, options, texts, result, lookupArgs,
                   cachedTranslations, textsToTranslate, translations,
                   newTranslations, i, allTranslations, batchArgs, requests,
                   written, failedOps, answers >>

\* translateDocuments / translateWithProgress: the call, up to the first await
\* (the return, for an empty list).
TDS_Call(docs, tgt, opts, who) ==
  /\ pc = "idle"
  /\ caller = "none"
  /\ caller' = who
  /\ documents' = docs
  /\ results' = <<>>
  /\ IF docs = <<>>
     THEN /\ pc' = "tds.done"
          /\ returned' = "results"
          /\ events' = <<>>
          /\ UNCHANGED documentVars
     ELSE /\ StartDocument(docs[1], tgt, opts)
          /\ events' = << Event("start", 1, Len(docs)) >>
  /\ UNCHANGED << config, store, time, isConnected, text, calls, prev, parked,
                  puts, cacheCall, client, ops >>

\* a loop that reports the index of the document instead of the count of the
\* completed ones: onProgress(i, total)
TDS_Push_ZeroBased ==
  /\ pc = "td.done"
  /\ caller # "none"
  /\ LET k == Len(results) + 1
         total == Len(documents)
     IN /\ results' = Append(results, result)
        /\ events' =
             events \o << Event("finish", k, total) >>
               \o (IF caller = "translateWithProgress"
                   THEN << Event("onProgress", k - 1, total) >> ELSE <<>>)
               \o (IF k < total THEN << Event("start", k + 1, total) >> ELSE <<>>)
        /\ IF k < total
           THEN StartDocument(documents[k + 1], targetLanguage, options)
           ELSE /\ pc' = "tds.done"
                /\ returned' = "results"
                /\ UNCHANGED documentVars
  /\ UNCHANGED << config, store, time, isConnected, text, calls, prev, caller,
                  documents, parked, puts, cacheCall, client, ops >>

\* the awaited translateDocument has returned: results.push, onProgress, and
\* the next turn of the loop up to its await (or the return of results)
TDS_Push ==
  /\ pc = "td.done"
  /\ caller # "none"
  /\ LET k == Len(results) + 1
         total == Len(documents)
     IN /\ results' = Append(results, result)
        /\ events' =
             events \o << Event("finish", k, total) >>
               \o (IF caller = "translateWithProgress"
                   THEN << Event("onProgress", k, total) >> ELSE <<>>)
               \o (IF k < total THEN << Event("start", k + 1, total) >> ELSE <<>>)
        /\ IF k < total
           THEN StartDocument(documents[k + 1], targetLanguage, options)
           ELSE /\ pc' = "tds.done"
                /\ returned' = "results"
                /\ UNCHANGED documentVars
  /\ UNCHANGED << config, store, time, isConnected, text, calls, prev, caller,
                  documents, parked, puts, cacheCall, client, ops >>

\* a loop that catches the error of a document, keeps the document as it was
\* and goes on with the next one
TDS_Rethrow_GoesOn ==
  /\ pc = "td.failed"
  /\ caller # "none"
  /\ LET k == Len(results) + 1
         total == Len(documents)
     IN /\ results' = Append(results, document)
        /\ events' =
             events \o << Event("fail", k, total) >>
               \o (IF k < total THEN << Event("start", k + 1, total) >> ELSE <<>>)
        /\ IF k < total
           THEN StartDocument(documents[k + 1], targetLanguage, options)
           ELSE /\ pc' = "tds.done"
                /\ returned' = "results"
                /\ UNCHANGED documentVars
  /\ UNCHANGED << config, store, time, isConnected, text, calls, prev, caller,
                  documents, parked, puts, cacheCall, client, ops >>

\* the awaited translateDocument has thrown: nothing catches it, the method
\* rejects with that error
TDS_Rethrow ==
  /\ pc = "td.failed"
  /\ caller # "none"
  /\ pc' = "tds.failed"
  /\ events' = Append(events, Event("fail", Len(results) + 1, Len(documents)))
  /\ UNCHANGED << config, store, time, isConnected, text, calls, prev, caller,
                  documents, results, returned, documentVars, parked, puts,
                  cacheCall, client, ops >>

NextDocuments ==
  \/ \E docs \in DocumentLists, tgt \in TargetLanguages, who \in Callers :
       TDS_Call(docs, tgt, NoOptions, who)
  \/ \E ok \in BOOLEAN : TD_GetBatch(ok)
  \/ TD_ChunkResponse
  \/ TD_Delay
  \/ TD_BulkResponse
  \/ TD_BackendError
  \/ \E ok \in BOOLEAN : TD_CacheBatch(ok)
  \/ TDS_Push
  \/ TDS_Rethrow

SpecDocuments == InitDocuments /\ [][NextDocuments]_vars

(***************************************************************************)
(* Two calls in flight on one LocalizationService: at every await the      *)
(* event loop may go on with the other call.                               *)
(***************************************************************************)
ConcurrentDocuments == { NestedDoc, InternalDoc }
ConcurrentTexts == { Hi }

InitConcurrent ==
  /\ config \in DocumentsConfigs
  /\ store = EmptyStore
  /\ time = 0
  /\ isConnected = FALSE
  /\ pc = "idle"
  /\ document = Null
  /\ text = <<>>
  /\ targetLanguage = <<>>
  /\ options = NoOptions
  /\ Locals0
  /\ Others0
  /\ calls = 0
  /\ prev = NoCall

\* the call that runs awaits or has settled, and the event loop goes on with
\* the other call (or lets the caller start it)
Switch ==
  /\ parked' = [pc |-> pc,
               document |-> document,
               text |-> text,
               targetLanguage |-> targetLanguage,
               options |-> options,
               texts |-> texts,
               cachedTranslations |-> cachedTranslations,
               textsToTranslate |-> textsToTranslate,
               translations |-> translations,
               newTranslations |-> newTranslations,
               i |-> i,
               allTranslations |-> allTranslations,
               result |-> result,
               lookupArgs |-> lookupArgs,
               batchArgs |-> batchArgs,
               requests |-> requests,
               written |-> written,
               failedOps |-> failedOps,
               returned |-> returned,
               answers |-> answers]
  /\ pc' = parked.pc
  /\ document' = parked.document
  /\ text' = parked.text
  /\ targetLanguage' = parked.targetLanguage
  /\ options' = parked.options
  /\ texts' = parked.texts
  /\ cachedTranslations' = parked.cachedTranslations
  /\ textsToTranslate' = parked.textsToTranslate
  /\ translations' = parked.translations
  /\ newTranslations' = parked.newTranslations
  /\ i' = parked.i
  /\ allTranslations' = parked.allTranslations
  /\ result' = parked.result
  /\ lookupArgs' = parked.lookupArgs
  /\ batchArgs' = parked.batchArgs
  /\ requests' = parked.requests
  /\ written' = parked.written
  /\ failedOps' = parked.failedOps
  /\ returned' = parked.returned
  /\ answers' = parked.answers
  /\ UNCHANGED << config, store, time, isConnected, calls, prev, caller, documents,
                  results, events, puts, cacheCall, client, ops >>

NextConcurrent ==
  \/ \E doc \in ConcurrentDocuments, tgt \in TargetLanguages :
       TD_Call(doc, tgt, NoOptions)
  \/ \E ok \in BOOLEAN : TD_GetBatch(ok)
  \/ TD_ChunkResponse
  \/ TD_Delay
  \/ TD_BulkResponse
  \/ TD_BackendError
  \/ \E ok \in BOOLEAN : TD_CacheBatch(ok)
  \/ \E t \in ConcurrentTexts, tgt \in TargetLanguages : TT_Call(t, tgt)
  \/ \E ok \in BOOLEAN : TT_GetCached(ok)
  \/ \E content \in ItemOptions(text) : TT_Response(content)
  \/ TT_BackendError
  \/ \E ok \in BOOLEAN : TT_Cache(ok)
  \/ Switch

SpecConcurrent == InitConcurrent /\ [][NextConcurrent]_vars

(***************************************************************************)
(* translateDocument with a backend that may leave a request unanswered:   *)
(* the steps of the program and of the cache are taken whenever they can   *)
(* be, the answer of the provider to axios.post may never come.            *)
(***************************************************************************)
LiveDocuments == { NestedDoc, EndToEndDoc, NoTextDoc }

InitLive == InitDocuments

NextLive ==
  \/ \E doc \in LiveDocuments, tgt \in TargetLanguages : TD_Call(doc, tgt, NoOptions)
  \/ \E ok \in BOOLEAN : TD_GetBatch(ok)
  \/ TD_ChunkResponse
  \/ TD_Delay
  \/ TD_BulkResponse
  \/ TD_BackendError
  \/ \E ok \in BOOLEAN : TD_CacheBatch(ok)
  \/ Return

\* what goes on without the provider: the cache operations settle, the timer of
\* the delay between two requests fires, the caller takes the outcome
ProgramSteps ==
  \/ \E ok \in BOOLEAN : TD_GetBatch(ok)
  \/ TD_Delay
  \/ \E ok \in BOOLEAN : TD_CacheBatch(ok)
  \/ Return

SpecLive == InitLive /\ [][NextLive]_vars /\ WF_vars(ProgramSteps)

(***************************************************************************)
(* CacheService called on its own: cacheTranslation and                    *)
(* getCachedTranslation, while the clock of the redis server runs.         *)
(***************************************************************************)
\* the largest expirationSeconds handed to cacheTranslation
MaxSeconds == 2
\* how far the clock runs
MaxTime == 3

HelloSpace == Hello \o <<" ">>
hello == ToLowerCase(Hello)
enes == en \o <<":">> \o es
esfr == es \o <<":">> \o fr

\* (text, sourceLanguage, targetLanguage) of the calls
CacheAddresses ==
  { <<HelloSpace, en, esfr>>, <<hello, en, esfr>>, <<hello, enes, fr>>,
    <<Hi, en, esfr>>, <<hello, en, fr>> }
\* the n-th cacheTranslation call stores the n-th of these, so that a read
\* tells the stores apart
CacheTranslations == << <<"x">>, <<"y">> >>

\* the locals of the calls, which a call on the CacheService leaves alone
callVars == << config, document, text, targetLanguage, options, texts,
               cachedTranslations, textsToTranslate, translations, newTranslations,
               i, allTranslations, lookupArgs, batchArgs, requests, written,
               failedOps, calls, prev, returned, answers, caller, documents,
               results, events, parked, client, ops >>

InitCache ==
  /\ config = Config("openai", DefaultBatchSize)
  /\ store = EmptyStore
  /\ time = 0
  /\ isConnected = FALSE
  /\ pc = "cs.ready"
  /\ document = Null
  /\ text = <<>>
  /\ targetLanguage = <<>>
  /\ options = NoOptions
  /\ Locals0
  /\ Others0
  /\ calls = 0
  /\ prev = NoCall

\* CacheService.cacheTranslation has settled (ok: its try block did not throw).
CS_CacheTranslation(t, src, tgt, seconds, ok) ==
  /\ pc = "cs.ready"
  /\ Len(puts) < Len(CacheTranslations)
  /\ isConnected' = ok
  /\ LET translatedText == CacheTranslations[Len(puts) + 1]
     IN /\ store' = IF ok
                    THEN cacheTranslation(store, time, t, translatedText, src, tgt, seconds)
                    ELSE store
        /\ puts' = IF ok
                   THEN Append(puts, [text |-> t, translatedText |-> translatedText,
                                      sourceLanguage |-> src, targetLanguage |-> tgt,
                                      seconds |-> seconds, at |-> time])
                   ELSE puts
  /\ UNCHANGED << time, pc, result, cacheCall, callVars >>

\* CacheService.getCachedTranslation has settled: result is what it returned,
\* null after a failure.
CS_GetCachedTranslation(t, src, tgt, ok) ==
  /\ pc = "cs.ready"
  /\ pc' = "cs.got"
  /\ isConnected' = ok
  /\ cacheCall' = [op |-> "getCachedTranslation", text |-> t, sourceLanguage |-> src,
                   targetLanguage |-> tgt, failed |-> ~ok]
  /\ LET cached == IF ok THEN getCachedTranslation(store, time, t, src, tgt)
                   ELSE Undefined
     IN result' = IF cached = Undefined THEN Null ELSE Str(cached)
  /\ UNCHANGED << store, time, puts, callVars >>

\* the caller of getCachedTranslation (or of clearCache) goes on
CS_Return ==
  /\ pc \in {"cs.got", "cs.cleared"}
  /\ pc' = "cs.ready"
  /\ result' = NoResult
  /\ cacheCall' = NoCacheCall
  /\ UNCHANGED << store, time, isConnected, puts, callVars >>

\* a second passes on the redis server
Tick ==
  /\ pc = "cs.ready"
  /\ time < MaxTime
  /\ time' = time + 1
  /\ UNCHANGED << store, isConnected, pc, result, puts, cacheCall, callVars >>

NextCache ==
  \/ \E a \in CacheAddresses, seconds \in 1..MaxSeconds, ok \in BOOLEAN :
       CS_CacheTranslation(a[1], a[2], a[3], seconds, ok)
  \/ \E a \in CacheAddresses, ok \in BOOLEAN :
       CS_GetCachedTranslation(a[1], a[2], a[3], ok)
  \/ CS_Return
  \/ Tick

SpecCache == InitCache /\ [][NextCache]_vars

(***************************************************************************)
(* LocalizationService.clearCache with both languages given, that is       *)
(* CacheService.clearCacheForLanguagePair, among stores and lookups.       *)
(***************************************************************************)
ClearAddresses == CacheAddresses \cup { <<Hi, en, es>>, <<hello, fr, es>> }
ClearPairs == { << a[2], a[3] >> : a \in ClearAddresses }

\* the arguments of clearCache: the pairs stored under, and calls that leave
\* the source language, the target language or both out
ClearCalls ==
  ClearPairs \cup { << Undefined, es >>, << en, Undefined >>, << en, <<>> >>,
                    << Undefined, Undefined >> }

\* LocalizationService.clearCache(src, tgt) has settled (ok: the try block of
\* clearCacheForLanguagePair did not throw). Without a target language it
\* warns and makes no call on the CacheService.
CS_ClearCache(src, tgt, ok) ==
  /\ pc = "cs.ready"
  /\ pc' = "cs.cleared"
  /\ Falsy(tgt) => ok
  /\ LET sourceLang == IF Falsy(src) THEN SourceLanguage(config) ELSE src
     IN /\ store' = IF ok THEN clearCache(store, sourceLang, tgt) ELSE store
        /\ cacheCall' = [op |-> "clearCache", text |-> <<>>, sourceLanguage |-> sourceLang,
                         targetLanguage |-> tgt, failed |-> ~ok]
  /\ isConnected' = IF Falsy(tgt) THEN isConnected ELSE ok
  /\ UNCHANGED << time, result, puts, callVars >>

NextClear ==
  \/ \E a \in ClearAddresses, seconds \in 1..MaxSeconds, ok \in BOOLEAN :
       CS_CacheTranslation(a[1], a[2], a[3], seconds, ok)
  \/ \E p \in ClearCalls, ok \in BOOLEAN : CS_ClearCache(p[1], p[2], ok)
  \/ \E a \in ClearAddresses, ok \in BOOLEAN :
       CS_GetCachedTranslation(a[1], a[2], a[3], ok)
  \/ CS_Return

SpecClear == InitCache /\ [][NextClear]_vars

(***************************************************************************)
(* TextExtractor.shouldTranslate called on its own.                        *)
(***************************************************************************)
\* the longest text made of FilterChars
MaxTextLen == 2

FilterChars == { "5", "0", "+", "a", "@", ".", " ", "-" }
RECURSIVE Strings(_)
Strings(n) ==
  IF n = 0 THEN { <<>> }
  ELSE Strings(n - 1)
         \cup { <<c>> \o t : c \in FilterChars, t \in { x \in Strings(n - 1) : Len(x) = n - 1 } }

\* +14155551234
PhoneExample == <<"+","1","4","1","5","5","5","5","1","2","3","4">>
\* 12345678901234567: one digit more than the phone pattern takes
LongNumber == <<"1","2","3","4","5","6","7","8","9","0","1","2","3","4","5","6","7">>
\* https://example.com
UrlExample ==
  <<"h","t","t","p","s",":","/","/","e","x","a","m","p","l","e",".","c","o","m">>
\* a@b.com
EmailExample == <<"a","@","b",".","c","o","m">>

FilterTexts ==
  Strings(MaxTextLen)
    \cup { ObjectId, Url, UrlExample, Email, EmailExample, PhoneExample, LongNumber,
           Hello, HiSpace, <<" ">> \o EmailExample, Tail(ObjectId) }

InitFilter ==
  /\ config = Config("openai", DefaultBatchSize)
  /\ store = EmptyStore
  /\ time = 0
  /\ isConnected = FALSE
  /\ pc = "st.ready"
  /\ document = Null
  /\ text \in FilterTexts
  /\ targetLanguage = <<>>
  /\ options = NoOptions
  /\ Locals0
  /\ Others0
  /\ calls = 0
  /\ prev = NoCall

\* TextExtractor.shouldTranslate(text): result is the boolean it returns
ST_Call ==
  /\ pc = "st.ready"
  /\ pc' = "st.done"
  /\ result' = Bool(IF shouldTranslate(text) THEN <<"t">> ELSE <<"f">>)
  /\ UNCHANGED << config, store, time, isConnected, document, text, targetLanguage,
                  options, texts, cachedTranslations, textsToTranslate, translations,
                  newTranslations, i, allTranslations, lookupArgs, batchArgs,
                  requests, written, failedOps, calls, prev, returned, answers,
                  others >>

\* the caller goes on to the next text
ST_Next(t) ==
  /\ pc = "st.done"
  /\ pc' = "st.ready"
  /\ text' = t
  /\ result' = NoResult
  /\ UNCHANGED << config, store, time, isConnected, document, targetLanguage,
                  options, texts, cachedTranslations, textsToTranslate, translations,
                  newTranslations, i, allTranslations, lookupArgs, batchArgs,
                  requests, written, failedOps, calls, prev, returned, answers,
                  others >>

NextFilter ==
  \/ ST_Call
  \/ \E t \in FilterTexts : ST_Next(t)

SpecFilter == InitFilter /\ [][NextFilter]_vars

(***************************************************************************)
(* TranslationService.detectLanguage, which LocalizationService            *)
(* .detectLanguage hands the call to.                                      *)
(***************************************************************************)
DetectConfigs ==
  { [Config(p, DefaultBatchSize) EXCEPT !.sourceLanguage = src] :
      p \in Providers, src \in { en, fr } }
DetectTexts == PipelineTexts \cup { Hello, Yo }
\* the language codes a provider may answer
DetectedLanguages == { en, es, fr }

InitDetect ==
  /\ config \in DetectConfigs
  /\ store = EmptyStore
  /\ time = 0
  /\ isConnected = FALSE
  /\ pc = "idle"
  /\ document = Null
  /\ text = <<>>
  /\ targetLanguage = <<>>
  /\ options = NoOptions
  /\ Locals0
  /\ Others0
  /\ calls = 0
  /\ prev = NoCall

\* detectLanguage(text), up to the await of the request; an unsupported
\* provider throws inside the try block and the catch block returns 'en'
DL_Call(t) ==
  /\ pc = "idle"
  /\ text' = t
  /\ IF Supported(config)
     THEN /\ pc' = "dl.request"
          /\ requests' = << <<t>> >>
          /\ result' = NoResult
     ELSE /\ pc' = "dl.done"
          /\ requests' = <<>>
          /\ result' = Str(en)
  /\ answers' = <<>>
  /\ UNCHANGED << config, store, time, isConnected, document, targetLanguage,
                  options, texts, cachedTranslations, textsToTranslate, translations,
                  newTranslations, i, allTranslations, lookupArgs, batchArgs,
                  written, failedOps, calls, prev, returned, others >>

\* the provider has answered with a language code
DL_Response(language) ==
  /\ pc = "dl.request"
  /\ pc' = "dl.done"
  /\ answers' = << <<language>> >>
  /\ result' = Str(IF config.aiProvider = "openai"
                   THEN ToLowerCase(Trim(language)) ELSE language)
  /\ UNCHANGED text
  /\ UNCHANGED requests
  /\ UNCHANGED << config, store, time, isConnected, document, targetLanguage,
                  options, texts, cachedTranslations, textsToTranslate, translations,
                  newTranslations, i, allTranslations, lookupArgs, batchArgs,
                  written, failedOps, calls, prev, returned, others >>

\* the request failed or the answer was malformed: the catch block returns 'en'
DL_Error ==
  /\ pc = "dl.request"
  /\ pc' = "dl.done"
  /\ result' = Str(en)
  /\ UNCHANGED << text, requests, answers >>
  /\ UNCHANGED << config, store, time, isConnected, document, targetLanguage,
                  options, texts, cachedTranslations, textsToTranslate, translations,
                  newTranslations, i, allTranslations, lookupArgs, batchArgs,
                  written, failedOps, calls, prev, returned, others >>

\* the caller has the language
DL_Return ==
  /\ pc = "dl.done"
  /\ pc' = "idle"
  /\ text' = <<>>
  /\ result' = NoResult
  /\ requests' = <<>>
  /\ answers' = <<>>
  /\ UNCHANGED << config, store, time, isConnected, document, targetLanguage,
                  options, texts, cachedTranslations, textsToTranslate, translations,
                  newTranslations, i, allTranslations, lookupArgs, batchArgs,
                  written, failedOps, calls, prev, returned, others >>

NextDetect ==
  \/ \E t \in DetectTexts : DL_Call(t)
  \/ \E language \in DetectedLanguages : DL_Response(language)
  \/ DL_Error
  \/ DL_Return

SpecDetect == InitDetect /\ [][NextDetect]_vars

\* ---------------------------------------------------------------------------
\* The connection of the CacheService: operations in flight together, the
\* events of the Redis client, and close().
\* ---------------------------------------------------------------------------

\* what connecting and disconnecting leave alone
connectOthers == << config, store, time, pc, document, text, targetLanguage, options,
                    texts, cachedTranslations, textsToTranslate, translations,
                    newTranslations, i, allTranslations, result, lookupArgs,
                    batchArgs, requests, written, failedOps, calls, prev, returned,
                    answers, caller, documents, results, events, parked, puts,
                    cacheCall >>

\* LocalizationService.initialize only connects; the others connect and then
\* send a command to the store.
ConnectOps == {"initialize", "getCachedTranslation", "cacheTranslation"}

InitConnect == InitCache

\* The operation is called and runs up to its first await. connect() reads
\* isConnected: when it is set there is nothing to await; when it is not,
\* client.connect() is called, whatever the socket is doing.
OP_Call(o, op) ==
  /\ ops[o].pc = "idle"
  /\ IF isConnected
     THEN /\ ops' = [ops EXCEPT ![o] =
                       [op |-> op,
                        pc |-> IF op = "initialize" THEN "done" ELSE "store",
                        duplicate |-> FALSE,
                        outcome |-> IF op = "initialize" THEN "ok" ELSE "none"]]
          /\ client' = client
     ELSE /\ ops' = [ops EXCEPT ![o] =
                       [op |-> op, pc |-> "connecting",
                        duplicate |-> client # "closed", outcome |-> "none"]]
          /\ client' = IF client = "closed" THEN "opening" ELSE client
  /\ UNCHANGED << isConnected, connectOthers >>

\* the client's 'connect' event: the handler sets isConnected
Client_Connect ==
  /\ client = "opening"
  /\ client' = "open"
  /\ isConnected' = TRUE
  /\ UNCHANGED << ops, connectOthers >>

\* the client's 'error' event while the socket opens: the handler clears
\* isConnected and the client.connect() calls awaited reject
Client_Error ==
  /\ client = "opening"
  /\ client' = "closed"
  /\ isConnected' = FALSE
  /\ ops' = [o \in DOMAIN ops |->
               IF ops[o].pc = "connecting"
               THEN [ops[o] EXCEPT !.pc = "done", !.outcome = "connectRejected"]
               ELSE ops[o]]
  /\ UNCHANGED connectOthers

\* after the await of the client.connect() that opened the socket
OP_Connected(o) ==
  /\ ops[o].pc = "connecting"
  /\ ~ops[o].duplicate
  /\ client # "opening"
  /\ ops' = [ops EXCEPT ![o] =
               IF ops[o].op = "initialize"
               THEN [ops[o] EXCEPT !.pc = "done", !.outcome = "ok"]
               ELSE [ops[o] EXCEPT !.pc = "store"]]
  /\ UNCHANGED << isConnected, client, connectOthers >>

\* after the await of a client.connect() called on a socket that was open or
\* opening: the client rejects the call (the operation's catch block returns
\* null or nothing, initialize rejects), or lets it wait for the socket
OP_Duplicate(o, rejected) ==
  /\ ops[o].pc = "connecting"
  /\ ops[o].duplicate
  /\ IF rejected
     THEN ops' = [ops EXCEPT ![o] = [ops[o] EXCEPT !.pc = "done",
                                                   !.outcome = "connectRejected"]]
     ELSE /\ client # "opening"
          /\ ops' = [ops EXCEPT ![o] =
                       IF ops[o].op = "initialize"
                       THEN [ops[o] EXCEPT !.pc = "done", !.outcome = "ok"]
                       ELSE [ops[o] EXCEPT !.pc = "store"]]
  /\ UNCHANGED << isConnected, client, connectOthers >>

\* the command sent to the store has settled (ok: it did not throw); on a
\* closed socket it throws
OP_Store(o, ok) ==
  /\ ops[o].pc = "store"
  /\ client # "open" => ~ok
  /\ ops' = [ops EXCEPT ![o] = [ops[o] EXCEPT !.pc = "done",
                                  !.outcome = IF ok THEN "ok" ELSE "commandFailed"]]
  /\ UNCHANGED << isConnected, client, connectOthers >>

\* the caller has the operation's result
OP_Return(o) ==
  /\ ops[o].pc = "done"
  /\ ops' = [ops EXCEPT ![o] = NoOp]
  /\ UNCHANGED << isConnected, client, connectOthers >>

\* LocalizationService.close: disconnect() closes the socket when isConnected
\* is set (emitted: the client emits the 'disconnect' event the constructor
\* listens to)
Close(emitted) ==
  /\ isConnected
  /\ client' = "closed"
  /\ isConnected' = ~emitted
  /\ UNCHANGED << ops, connectOthers >>

NextConnect ==
  \/ \E o \in 1..MaxOps, op \in ConnectOps : OP_Call(o, op)
  \/ Client_Connect
  \/ Client_Error
  \/ \E o \in 1..MaxOps : OP_Connected(o)
  \/ \E o \in 1..MaxOps, rejected \in BOOLEAN : OP_Duplicate(o, rejected)
  \/ \E o \in 1..MaxOps, ok \in BOOLEAN : OP_Store(o, ok)
  \/ \E o \in 1..MaxOps : OP_Return(o)
  \/ \E emitted \in BOOLEAN : Close(emitted)

SpecConnect == InitConnect /\ [][NextConnect]_vars

(***************************************************************************)
(* translateBatch under every provider and configured batchSize, through   *)
(* translateDocument with an empty cache.                                  *)
(***************************************************************************)
\* batchSize 0 stands for an unset one; -1 is a number the configuration takes
\* as it takes any other
ChunkBatchSizes == { -1, 0 } \cup 1..MaxBatchSize
ChunkConfigs ==
  { Config("openai", b) : b \in ChunkBatchSizes }
    \cup { Config(p, b) : p \in {"google", "azure"}, b \in { 1, DefaultBatchSize } }

\* {a: ["Hi"]}, {a: ["Hi", "Yo"]}, {a: ["Hi", "Yo", "Hello"]}
ChunkDocuments ==
  { Obj(<<kA>>, << Arr(<< Str(Hi) >>) >>),
    Obj(<<kA>>, << Arr(<< Str(Hi), Str(Yo) >>) >>),
    Obj(<<kA>>, << Arr(<< Str(Hi), Str(Yo), Str(Hello) >>) >>) }

InitChunks ==
  /\ config \in ChunkConfigs
  /\ store = EmptyStore
  /\ time = 0
  /\ isConnected = FALSE
  /\ pc = "idle"
  /\ document = Null
  /\ text = <<>>
  /\ targetLanguage = <<>>
  /\ options = NoOptions
  /\ Locals0
  /\ Others0
  /\ calls = 0
  /\ prev = NoCall

NextChunks ==
  \/ \E doc \in ChunkDocuments, tgt \in TargetLanguages : TD_Call(doc, tgt, NoOptions)
  \/ \E ok \in BOOLEAN : TD_GetBatch(ok)
  \/ TD_ChunkResponse
  \/ TD_Delay
  \/ TD_BulkResponse
  \/ TD_BackendError
  \/ \E ok \in BOOLEAN : TD_CacheBatch(ok)

SpecChunks == InitChunks /\ [][NextChunks]_vars

(***************************************************************************)
(* What the claims speak of                                                *)
(***************************************************************************)
\* The leaves of a record, each with its path and whether a key on the way to
\* it begins with "_".
RECURSIVE LeavesOf(_, _, _)
LeavesOf(obj, path, internal) ==
  CASE obj.tag = "array" ->
         UNION { LeavesOf(obj.items[n], IndexPath(path, n), internal)
                   : n \in DOMAIN obj.items }
    [] obj.tag = "object" ->
         UNION { LeavesOf(obj.items[n], KeyPath(path, obj.keys[n]),
                          internal \/ StartsWith(obj.keys[n], <<"_">>))
                   : n \in DOMAIN obj.keys }
    [] OTHER -> { [path |-> path, leaf |-> obj, internal |-> internal] }

DocLeaves(doc) == LeavesOf(doc, <<>>, FALSE)

\* the leaf a record holds at a path
LeafAt(doc, path) == (CHOOSE l \in DocLeaves(doc) : l.path = path).leaf
HasLeafAt(doc, path) == \E l \in DocLeaves(doc) : l.path = path

\* some entry of the list is a prefix of the path
SomePrefix(list, path) == \E n \in DOMAIN list : StartsWith(path, list[n])

\* an excludeFields entry is a prefix of the path
ExcludedPath(opts, path) ==
  opts.excludeFields.present /\ SomePrefix(opts.excludeFields.list, path)

\* the paths extractTextFromDocument reported a candidate at
LocatedPaths(doc, opts) ==
  { p[1] : p \in Range(extractFromObject(doc, <<>>, opts.fields, opts.excludeFields)) }

\* a string the locator takes for a text: not blank, not a 24-hex identifier
LocatorText(leaf) ==
  leaf.tag = "string" /\ Trim(leaf.s) # <<>> /\ ~MatchesObjectId(leaf.s)

NoDuplicates(list) ==
  \A m \in DOMAIN list : \A n \in DOMAIN list : list[m] = list[n] => m = n

SameArguments ==
  /\ document = prev.document
  /\ targetLanguage = prev.targetLanguage
  /\ options = prev.options

LookupFailed == "getBatchCachedTranslations" \in failedOps

\* C1: translateBatch is handed exactly the candidate texts without a cache hit
\* in the batch lookup (a failed lookup hits nothing), the provider is sent
\* exactly those texts, and neither is called when every candidate hit.
C1_BackendOnlyForMisses ==
  LET KeyOf(t) == generateCacheKey(t, SourceLanguage(config), targetLanguage)
      NoHit(t) == LookupFailed \/ ~StoreHas(store, KeyOf(t), time)
      Missed(t) == ~MapHas(cachedTranslations, t)
  IN /\ pc \in {"td.request", "td.delay", "td.cacheBatch", "td.failed"} =>
          /\ SelectSeq(texts, NoHit) # <<>>
          /\ batchArgs = << SelectSeq(texts, NoHit) >>
     /\ pc = "td.cacheBatch" => Flatten(requests) = SelectSeq(texts, NoHit)
     /\ pc = "td.done" =>
          IF SelectSeq(texts, Missed) = <<>>
          THEN batchArgs = <<>> /\ requests = <<>>
          ELSE batchArgs = << SelectSeq(texts, Missed) >>
                 /\ Flatten(requests) = SelectSeq(texts, Missed)

\* C1 witness: a lookup that hit one candidate and missed another, followed by
\* a backend call that has returned.
C1_Witness ==
  /\ pc = "td.cacheBatch"
  /\ cachedTranslations # EmptyMap
  /\ Len(textsToTranslate) < Len(texts)
  /\ batchArgs = <<textsToTranslate>>

\* C2: a second translateDocument with the same arguments, after a first one
\* that succeeded, both with a working cache and no expiry in between, makes no
\* backend call and returns the document the first call returned.
C2_Idempotent ==
  ( /\ pc = "td.done"
    /\ prev.pc = "td.done"
    /\ SameArguments
    /\ prev.failedOps = {}
    /\ failedOps = {} )
  => /\ requests = <<>>
     /\ result = prev.result

\* C3: the list handed to the batch cache lookup and the list handed to
\* translateBatch hold no text twice.
C3_Deduplicated ==
  /\ \A n \in DOMAIN lookupArgs : NoDuplicates(lookupArgs[n])
  /\ \A n \in DOMAIN batchArgs : NoDuplicates(batchArgs[n])

\* C4: a string leaf whose path has an excludeFields entry as a prefix is not
\* reported by extractTextFromDocument and is returned unchanged by
\* reconstructDocumentWithTranslations, whatever fields holds.
C4_ExclusionWins ==
  pc = "te.reconstructed" =>
    \A l \in DocLeaves(document) :
      (l.leaf.tag = "string" /\ ExcludedPath(options, l.path)) =>
        /\ l.path \notin LocatedPaths(document, options)
        /\ LeafAt(result, l.path) = l.leaf

\* C5: with a non-empty fields list, a text of a document (an object) that is
\* neither excluded nor under a reserved key is a candidate, and is translated,
\* exactly when some fields entry is a prefix of its path.
C5_InclusionByPrefix ==
  ( /\ pc = "te.reconstructed"
    /\ document.tag = "object"
    /\ options.fields.present
    /\ options.fields.list # <<>> )
  => \A l \in DocLeaves(document) :
       (LocatorText(l.leaf) /\ ~l.internal /\ ~ExcludedPath(options, l.path)) =>
         IF SomePrefix(options.fields.list, l.path)
         THEN /\ l.path \in LocatedPaths(document, options)
              /\ LeafAt(result, l.path) = Str(TranslateLeaf(allTranslations, l.leaf.s))
         ELSE /\ l.path \notin LocatedPaths(document, options)
              /\ LeafAt(result, l.path) = l.leaf

\* C6: with fields = [] the candidate list and the reconstructed record are
\* those obtained with fields absent.
C6_EmptyFieldsMeansAll ==
  (pc = "te.reconstructed" /\ options.fields = Present(<<>>)) =>
    LET all == [options EXCEPT !.fields = Absent]
    IN /\ texts = extractTextFromDocument(document, all)
       /\ result = reconstructDocumentWithTranslations(document, allTranslations, all)

\* a leaf translateDocument has no business with
NonCandidate(l, opts) ==
  \/ l.leaf.tag \in {"number", "boolean", "null"}
  \/ ExcludedPath(opts, l.path)
  \/ l.internal
  \/ l.leaf.tag = "string" /\ ~shouldTranslate(Trim(l.leaf.s))

\* C7: every leaf that is a number, a boolean or null, that lies under an
\* excluded path or under a key beginning with "_", or whose text the
\* translatability filter rejects, has in the document translateDocument
\* returns the value it has in the input.
C7_NonCandidatesUntouched ==
  pc = "td.done" =>
    \A l \in DocLeaves(document) :
      NonCandidate(l, options) =>
        HasLeafAt(result, l.path) /\ LeafAt(result, l.path) = l.leaf

\* C8: reconstructDocumentWithTranslations with the empty mapping returns a
\* record equal to its input, for every record and selector.
C8_ReconstructIdentity ==
  (pc = "te.reconstructed" /\ allTranslations = EmptyMap) => result = document

\* C8 witness: the empty mapping applied to a record with a located text, an
\* excluded subtree and three levels of nesting.
C8_Witness ==
  /\ pc = "te.reconstructed"
  /\ allTranslations = EmptyMap
  /\ document = NestedDoc
  /\ options = PrecedenceOptions
  /\ texts = <<Yo>>
  /\ result = NestedDoc

\* C9: no step of a translateDocument call that ends in a backend failure
\* writes to the cache, and the failed call returns no document.
C9_NoCacheWriteOnBackendFailure ==
  [][ /\ pc' \in {"td.getBatch", "td.request", "td.delay", "td.failed"} =>
           (store' = store /\ written' = <<>>)
      /\ pc' = "td.failed" => result' = NoResult ]_vars

\* C9 witness: translateBatch failed at a later chunk, after an earlier chunk
\* had been translated.
C9_Witness ==
  /\ pc = "td.failed"
  /\ translations # EmptyMap
  /\ i > 0
  /\ written = <<>>

\* C10: a cache operation that throws never fails the call: a failed lookup is
\* a miss for every text, a failed store leaves the cache as it was, and the
\* call returns what an empty cache and the same backend answers give.
C10_CacheFailuresAbsorbed ==
  [][ /\ pc' = "td.failed" =>
           \/ pc = "td.failed"
           \/ pc = "td.request"
           \/ pc = "td.getBatch" /\ ~Supported(config)
      /\ pc' = "tt.failed" =>
           \/ pc = "tt.failed"
           \/ pc = "tt.request"
           \/ pc = "tt.getCached" /\ ~Supported(config)
      /\ (pc = "td.getBatch" /\ "getBatchCachedTranslations" \in failedOps') =>
           /\ store' = store
           /\ cachedTranslations' = EmptyMap
           /\ textsToTranslate' = texts
           /\ batchArgs' = <<texts>>
      /\ (pc = "td.cacheBatch" /\ "cacheBatchTranslations" \in failedOps') =>
           /\ store' = store
           /\ pc' = "td.done"
           /\ result' = Reconstructed(document, cachedTranslations, newTranslations,
                                      options)
      /\ (pc' = "td.done" /\ "getBatchCachedTranslations" \in failedOps') =>
           /\ \A n \in DOMAIN texts : MapHas(newTranslations', texts[n])
           /\ result' = Reconstructed(
                          document,
                          getBatchCachedTranslations(EmptyStore, time, texts,
                                                     SourceLanguage(config),
                                                     targetLanguage),
                          newTranslations', options)
      /\ (pc = "tt.getCached" /\ "getCachedTranslation" \in failedOps') =>
           /\ store' = store
           /\ Supported(config) => (pc' = "tt.request" /\ requests' = << <<text>> >>)
      /\ (pc = "tt.cache" /\ "cacheTranslation" \in failedOps') =>
           /\ store' = store
           /\ pc' = "tt.done"
           /\ result' = Response(MapGet(newTranslations, text), SourceLanguage(config),
                                 targetLanguage, FALSE) ]_vars

\* C10 witness: a translateDocument call whose lookup and store both threw and
\* which returned a translated document.
C10_Witness ==
  /\ pc = "td.done"
  /\ failedOps = {"getBatchCachedTranslations", "cacheBatchTranslations"}
  /\ result # document
  /\ result # NoResult

\* C11: every mapping translateBatch returns holds each requested text as a key
\* with a translated string for value, never undefined, and no entry without a
\* translated text is stored in the cache.
C11_TranslateBatchComplete ==
  /\ pc = "td.cacheBatch" =>
       \A n \in DOMAIN textsToTranslate :
         /\ MapHas(newTranslations, textsToTranslate[n])
         /\ MapGet(newTranslations, textsToTranslate[n]) # Undefined
  /\ \A key \in DOMAIN store : ParsedTranslatedText(store[key].value) # Undefined

\* C12: a non-empty text of the input whose entry in the merged mapping is
\* missing, empty or undefined keeps its value in the document translateDocument
\* returns, and no such text is replaced by an empty or missing value.
C12_FallbackToOriginal ==
  pc = "td.done" =>
    \A l \in DocLeaves(document) :
      (l.leaf.tag = "string" /\ l.leaf.s # <<>>) =>
        /\ HasLeafAt(result, l.path)
        /\ LeafAt(result, l.path).tag = "string"
        /\ LeafAt(result, l.path).s \notin {<<>>, Undefined}
        /\ Falsy(MapGet(allTranslations, l.leaf.s)) => LeafAt(result, l.path) = l.leaf

\* C12 witness: the provider left out the translation of one text of the document
\* and translated the other; the first is returned as it was.
C12_Witness ==
  /\ pc = "td.done"
  /\ document = NestedDoc
  /\ options = NoOptions
  /\ MapGet(allTranslations, Hi) = <<"x">> \o Hi
  /\ MapHas(allTranslations, Yo)
  /\ MapGet(allTranslations, Yo) = Undefined
  /\ result = Obj(<<kA>>, << Obj(<<kB, kC>>,
                               << Obj(<<kC>>, <<Str(<<"x">> \o Hi)>>), Str(Yo) >>) >>)

\* C13: while a translateDocument call is in flight its argument keeps the
\* value it had at the call, and the document the call returns is a record
\* reconstruct built, never the argument itself.
C13_InputKeptNewRecordReturned ==
  [][ /\ (pc # "idle" /\ pc' # "idle") => document' = document
      /\ pc' = "td.done" => returned' = "result" ]_vars

\* the size of the chunks translateBatch posts: batchSize on openai, the whole
\* list on the other providers
ChunkSize(cfg, list) ==
  IF cfg.aiProvider = "openai" THEN BatchSize(cfg) ELSE Len(list)

\* the provider answered the text at position n of the list
Answered(n) ==
  LET size == ChunkSize(config, textsToTranslate)
      chunk == ((n - 1) \div size) + 1
  IN chunk <= Len(answers) /\ ((n - 1) % size) + 1 <= Len(answers[chunk])

\* the item the provider answered for position n
AnswerAt(n) ==
  LET size == ChunkSize(config, textsToTranslate)
  IN answers[((n - 1) \div size) + 1][((n - 1) % size) + 1]

\* the last position of a text in the list
LastPosition(list, t) ==
  CHOOSE n \in DOMAIN list :
    list[n] = t /\ \A m \in DOMAIN list : list[m] = t => m <= n

\* C14: the mapping translateBatch returns has the distinct requested texts for
\* keys, each once, and the value of a key is the item the provider answered at
\* a position of that text (the last one).
C14_BatchCorrespondence ==
  pc = "td.cacheBatch" =>
    /\ Range(MapKeys(newTranslations)) = Range(textsToTranslate)
    /\ NoDuplicates(MapKeys(newTranslations))
    /\ \A n \in DOMAIN newTranslations :
         LET last == LastPosition(textsToTranslate, newTranslations[n][1])
         IN /\ Answered(last)
            /\ newTranslations[n][2] = AnswerAt(last)

\* the cache key a call on the CacheService addresses
KeyOf(call) == generateCacheKey(call.text, call.sourceLanguage, call.targetLanguage)
\* the accepted cacheTranslation calls that addressed the key of a call
StoresFor(call) == { n \in DOMAIN puts : KeyOf(puts[n]) = KeyOf(call) }
Latest(S) == CHOOSE n \in S : \A m \in S : m <= n

\* C15: a getCachedTranslation returns the translation of the latest
\* cacheTranslation for its key as long as fewer than that call's
\* expirationSeconds have passed since it, and absent (null) once they have
\* passed or when nothing was stored for the key.
C15_RoundTripWithExpiry ==
  (pc = "cs.got" /\ ~cacheCall.failed) =>
    IF StoresFor(cacheCall) = {}
    THEN result = Null
    ELSE LET last == puts[Latest(StoresFor(cacheCall))]
         IN IF time < last.at + last.seconds
            THEN result = Str(last.translatedText)
            ELSE result = Null

\* a later store with a shorter life has expired while the earlier one for the
\* same arguments would still be alive, and the read finds nothing
C15_Witness ==
  /\ pc = "cs.got" /\ ~cacheCall.failed
  /\ Len(puts) = 2
  /\ \A n \in 1..2 : /\ puts[n].text = cacheCall.text
                     /\ puts[n].sourceLanguage = cacheCall.sourceLanguage
                     /\ puts[n].targetLanguage = cacheCall.targetLanguage
  /\ time < puts[1].at + puts[1].seconds
  /\ time >= puts[2].at + puts[2].seconds
  /\ result = Null

\* the store has just been made and the same arguments read it back
C15_WitnessImmediate ==
  /\ pc = "cs.got" /\ ~cacheCall.failed
  /\ Len(puts) = 1
  /\ puts[1].text = cacheCall.text
  /\ puts[1].sourceLanguage = cacheCall.sourceLanguage
  /\ puts[1].targetLanguage = cacheCall.targetLanguage
  /\ puts[1].at = time
  /\ result = Str(puts[1].translatedText)

\* the arguments of a call on the CacheService
Address(call) == << call.text, call.sourceLanguage, call.targetLanguage >>
\* the calls made on the CacheService so far: the accepted stores and the lookup
\* that has just returned
Addressed ==
  { Address(puts[n]) : n \in DOMAIN puts }
    \cup (IF cacheCall.op = "none" THEN {} ELSE { Address(cacheCall) })
\* lowercased and trimmed text, source language, target language
Normalized(a) == << Trim(ToLowerCase(a[1])), a[2], a[3] >>

\* C16: two calls on the CacheService address the same cache entry exactly when
\* their lowercased and trimmed text, their source language and their target
\* language are equal.
C16_KeyCollisionFree ==
  \A a, b \in Addressed :
    (generateCacheKey(a[1], a[2], a[3]) = generateCacheKey(b[1], b[2], b[3]))
      <=> (Normalized(a) = Normalized(b))

\* the document whose translateDocument the n-th event of a loop with `step`
\* events per document belongs to, and the place of the event in that group
DocumentOf(n, step) == ((n - 1) \div step) + 1
PlaceOf(n, step) == ((n - 1) % step) + 1
\* the last event of the log says that document k failed
FailedAt(n) == events[n].op = "fail"

\* C17: translateWithProgress with an onProgress starts document 1, and after
\* each document that finishes calls onProgress(k, total) once, with k the
\* place of that document in the list, before it starts document k + 1; a
\* failed document ends the call with no callback for it or after it, and a
\* call that returns has made total callbacks.
C17_ProgressInOrder ==
  caller = "translateWithProgress" =>
    LET total == Len(documents)
    IN /\ \A n \in DOMAIN events :
            LET k == DocumentOf(n, 3)
            IN /\ k <= total
               /\ events[n].k = k /\ events[n].total = total
               /\ PlaceOf(n, 3) = 1 => events[n].op = "start"
               /\ PlaceOf(n, 3) = 2 =>
                    \/ events[n].op = "finish"
                    \/ FailedAt(n) /\ n = Len(events) /\ pc = "tds.failed"
               /\ PlaceOf(n, 3) = 3 => events[n].op = "onProgress"
       /\ pc \in {"td.getBatch", "td.request", "td.delay", "td.cacheBatch", "td.done",
                  "td.failed"} =>
            /\ events # <<>>
            /\ events[Len(events)].op = "start"
            /\ document = documents[events[Len(events)].k]
       /\ pc = "tds.done" => Len(events) = 3 * total
       /\ pc = "tds.failed" => events # <<>> /\ FailedAt(Len(events))

\* the first document finished and was reported, the second failed: the call
\* failed after one callback
C17_Witness ==
  /\ caller = "translateWithProgress"
  /\ pc = "tds.failed"
  /\ Len(documents) = 2
  /\ events = << Event("start", 1, 2), Event("finish", 1, 2), Event("onProgress", 1, 2),
                 Event("start", 2, 2), Event("fail", 2, 2) >>

\* the translations translateDocument can return for a document: every leaf is
\* the leaf of the document or, for a string, its translation
IsTranslationOf(res, doc) ==
  /\ { l.path : l \in DocLeaves(res) } = { l.path : l \in DocLeaves(doc) }
  /\ \A l \in DocLeaves(doc) :
       \/ LeafAt(res, l.path) = l.leaf
       \/ /\ l.leaf.tag = "string"
          /\ LeafAt(res, l.path) \in { Str(x) : x \in ItemOptions(l.leaf.s) \ {<<>>} }

\* C18: translateDocuments starts document k + 1 only after document k has
\* finished, returns one result per document with results[n] a translation of
\* documents[n], and fails as soon as a document fails, with no later document
\* started.
C18_SequentialAllOrNothing ==
  caller = "translateDocuments" =>
    LET total == Len(documents)
    IN /\ \A n \in DOMAIN events :
            LET k == DocumentOf(n, 2)
            IN /\ k <= total
               /\ events[n].k = k
               /\ PlaceOf(n, 2) = 1 => events[n].op = "start"
               /\ PlaceOf(n, 2) = 2 =>
                    \/ events[n].op = "finish"
                    \/ FailedAt(n) /\ n = Len(events) /\ pc = "tds.failed"
       /\ \A n \in DOMAIN results : IsTranslationOf(results[n], documents[n])
       /\ pc = "tds.done" =>
            /\ returned = "results"
            /\ Len(results) = total
            /\ Len(events) = 2 * total
       /\ pc = "tds.failed" =>
            /\ events # <<>> /\ FailedAt(Len(events))
            /\ Len(results) = events[Len(events)].k - 1

\* both documents of a list were translated, the second after the first
C18_Witness ==
  /\ caller = "translateDocuments"
  /\ pc = "tds.done"
  /\ documents = << NestedDoc, EndToEndDoc >>
  /\ Len(results) = 2
  /\ results[1] # documents[1] /\ results[2] # documents[2]
  /\ events = << Event("start", 1, 2), Event("finish", 1, 2),
                 Event("start", 2, 2), Event("finish", 2, 2) >>

\* the values the running call hands to the cache for a key
ValuesFor(key) ==
  { newTranslations[n][2] :
      n \in { m \in DOMAIN newTranslations :
                generateCacheKey(newTranslations[m][1], SourceLanguage(config),
                                 targetLanguage) = key } }
\* the running call has written to the cache in this step
Writes == parked' = parked /\ written' # written
\* the items the backend may produce for a key: what it may answer to a text
\* of that key
ProducedFor(key) ==
  { x \in UNION { ItemOptions(t) : t \in PipelineTexts \cup { Yo } } :
      \E t \in PipelineTexts \cup { Yo } :
        /\ x \in ItemOptions(t)
        /\ generateCacheKey(t, en, es) = key }

\* C19: with two calls in flight, a write of a call leaves under each of its
\* keys the value that call wrote, whatever the other call had written there
\* (the last writer wins), no other step changes the cache, and every value
\* the cache holds is a translation the backend produced for its key.
C19_LastWriterWinsCompleteValues ==
  /\ [][ /\ Writes =>
              \A n \in (Len(written) + 1)..Len(written') :
                /\ written'[n] \in DOMAIN store'
                /\ ParsedTranslatedText(store'[written'[n]].value) \in ValuesFor(written'[n])
                /\ store'[written'[n]].expires = time + config.cacheExpiration
         /\ ~Writes => store' = store ]_vars
  /\ []((pc # "idle" /\ parked.pc # "idle") =>
          \A key \in DOMAIN store :
            ParsedTranslatedText(store[key].value) \in ProducedFor(key))

\* C20: a translateDocument call that waits for the answer of the provider
\* eventually settles, with a result or a failure, also when the answer never
\* comes.
C20_RequestEventuallySettles ==
  (pc = "td.request") ~> (pc \in {"td.done", "td.failed"})

\* the cached flag of a TranslationResponse
Cached(response) == response.items[1] = Bool(<<"t">>)

\* C21: a translateText that returns reports cached: false exactly when it asked
\* the backend and got the text from it, and cached: true exactly when it asked
\* nothing and returns what the cache held; and the repeat of a successful call,
\* both with a working cache, asks the backend nothing and returns the same
\* translatedText with cached: true.
C21_CachedFlagAndRepeat ==
  /\ pc = "tt.done" =>
       /\ ~Cached(result) <=> (Len(requests) = 1 /\ Len(answers) = 1)
       /\ Cached(result) <=>
            /\ requests = <<>>
            /\ result.s = getCachedTranslation(store, time, text, SourceLanguage(config),
                                               targetLanguage)
  /\ ( /\ pc = "tt.done"
       /\ prev.pc = "tt.done"
       /\ text = prev.text /\ targetLanguage = prev.targetLanguage
       /\ prev.failedOps = {}
       /\ failedOps = {} )
     => /\ requests = <<>>
        /\ result.s = prev.result.s
        /\ Cached(result)

\* C22: a clearCache(src, tgt) that did not fail leaves no text readable under
\* (src, tgt), and leaves every entry stored under another pair of languages
\* readable with the value and the expiry it had.
C22_ClearsThePairOnly ==
  [][ (pc = "cs.ready" /\ pc' = "cs.cleared" /\ ~cacheCall'.failed) =>
        \A a \in ClearAddresses :
          LET key == generateCacheKey(a[1], a[2], a[3])
          IN IF << a[2], a[3] >> = << cacheCall'.sourceLanguage, cacheCall'.targetLanguage >>
             THEN getCachedTranslation(store', time', a[1], a[2], a[3]) = Undefined
             ELSE (\E n \in DOMAIN puts : Address(puts[n]) = a /\ key \in DOMAIN store)
                    => (key \in DOMAIN store' /\ store'[key] = store[key]) ]_vars

\* the classes of texts the filter is said to reject
IsBlank(s) == \A n \in DOMAIN s : IsSpace(s[n])
IsHex24(s) == Len(s) = ObjectIdLength /\ \A n \in DOMAIN s : IsHexChar(s[n])
HasUrlScheme(s) ==
  \/ StartsWith(s, <<"h","t","t","p",":","/","/">>)
  \/ StartsWith(s, <<"h","t","t","p","s",":","/","/">>)
IsEmailShaped(s) ==
  \E at \in DOMAIN s : \E dot \in DOMAIN s :
    /\ at < dot /\ s[at] = "@" /\ s[dot] = "."
    /\ at > 1 /\ dot > at + 1 /\ dot < Len(s)
    /\ \A n \in DOMAIN s : n # at => (s[n] # "@" /\ ~IsSpace(s[n]))
IsPhoneShaped(s) ==
  LET d == IF s # <<>> /\ s[1] = "+" THEN Tail(s) ELSE s
  IN /\ Len(d) \in 1..(PhoneMaxMoreDigits + 1)
     /\ \A n \in DOMAIN d : IsDigit(d[n])
     /\ d[1] # "0"
Rejects == result = Bool(<<"f">>)

\* C23 as stated: shouldTranslate returns false for the empty string, blank
\* strings, 24 hexadecimal characters, a URL scheme prefix, the email pattern
\* and "+14155551234", and true for every other string.
C23_RejectsOnlyTheListed ==
  pc = "st.done" =>
    (Rejects <=> \/ IsBlank(text)
                 \/ IsHex24(text)
                 \/ HasUrlScheme(text)
                 \/ IsEmailShaped(text)
                 \/ text = PhoneExample)

\* C23, amended: shouldTranslate returns false exactly for the empty string,
\* blank strings, 24 hexadecimal characters, texts that start with http:// or
\* https://, texts of the email pattern, and texts of the phone pattern (an
\* optional +, a digit from 1 to 9, up to 15 more digits); true for every other
\* string.
C23_RejectsExactly ==
  pc = "st.done" =>
       (Rejects <=> \/ IsBlank(text)
                    \/ IsHex24(text)
                    \/ HasUrlScheme(text)
                    \/ IsEmailShaped(text)
                    \/ IsPhoneShaped(text))

\* a short number is taken for a phone number and rejected
C23_Witness ==
  /\ pc = "st.done"
  /\ text = <<"5", "0">>
  /\ Rejects

\* C24: detectLanguage always returns a language, and when the provider gave
\* none (the request failed, the answer was malformed, the provider is not
\* supported) it returns the configured sourceLanguage.
C24_DetectFallsBackToConfigured ==
  pc = "dl.done" =>
    /\ result.tag = "string"
    /\ answers = <<>> => result = Str(config.sourceLanguage)

Unsupported == config.aiProvider \notin {"openai", "google", "azure"}

\* C25: with an unsupported provider no request is ever sent and nothing is
\* written to the cache; a translateDocument returns only when every candidate
\* hit the cache (or there is none) and a translateText only with a cached
\* text: every call with a miss fails.
C25_UnsupportedProviderFails ==
  Unsupported =>
    /\ requests = <<>>
    /\ written = <<>>
    /\ pc \notin {"td.request", "td.delay", "td.cacheBatch", "tt.request", "tt.cache"}
    /\ pc = "td.done" => textsToTranslate = <<>>
    /\ pc = "td.failed" => textsToTranslate # <<>>
    /\ pc = "tt.done" => Cached(result)
    /\ pc = "tt.failed" =>
         Falsy(IF "getCachedTranslation" \in failedOps THEN Undefined
               ELSE getCachedTranslation(store, time, text, SourceLanguage(config),
                                         targetLanguage))

\* a translateDocument with one cached and one missing text failed under the
\* provider "gemini", with nothing sent and nothing written
C25_Witness ==
  /\ config.aiProvider = "gemini"
  /\ pc = "td.failed"
  /\ cachedTranslations # EmptyMap
  /\ textsToTranslate # <<>>
  /\ batchArgs = << textsToTranslate >>
  /\ requests = <<>>
  /\ written = <<>>

\* C26: after the reconstruction, every string leaf at a path the locator
\* reported a candidate at, whose trimmed text has a non-empty entry in the
\* mapping, holds that entry in the output.
C26_MappingAppliedToCandidates ==
  pc = "te.reconstructed" =>
    \A l \in DocLeaves(document) :
      ( /\ l.path \in LocatedPaths(document, options)
        /\ l.leaf.tag = "string"
        /\ MapHas(allTranslations, Trim(l.leaf.s))
        /\ ~Falsy(MapGet(allTranslations, Trim(l.leaf.s))) )
      => /\ HasLeafAt(result, l.path)
         /\ LeafAt(result, l.path) = Str(MapGet(allTranslations, Trim(l.leaf.s)))

\* the places of a translateDocument call
DocumentPcs == {"td.getBatch", "td.request", "td.delay", "td.cacheBatch", "td.done",
                "td.failed"}
\* every request of translateBatch has been answered
BackendReturned == requests # <<>> /\ Len(answers) = Len(requests)

\* C27: a translateDocument with a candidate makes one batch lookup, then one
\* translateBatch call and only when a text missed, then one batch store with
\* the configured expiration and only after translateBatch returned, then the
\* reconstruction with the whole merged mapping; a call that failed wrote
\* nothing and returns no document.
C27_PipelineOrder ==
  /\ []( (pc \in DocumentPcs /\ texts # <<>>) =>
           /\ lookupArgs = << texts >>
           /\ Len(batchArgs) <= 1
           /\ batchArgs # <<>> => (batchArgs = << textsToTranslate >> /\ textsToTranslate # <<>>)
           /\ pc \in {"td.request", "td.delay", "td.cacheBatch"} => batchArgs # <<>>
           /\ textsToTranslate = <<>> => (requests = <<>> /\ written = <<>>)
           /\ written # <<>> => (pc = "td.done" /\ BackendReturned)
           /\ result # NoResult =>
                /\ pc = "td.done"
                /\ textsToTranslate # <<>> => BackendReturned
                /\ result = reconstructDocumentWithTranslations(
                              document, MapUnion(cachedTranslations, newTranslations),
                              options)
           /\ pc = "td.failed" => (result = NoResult /\ written = <<>>) )
  /\ [][ pc' \in DocumentPcs =>
           /\ lookupArgs' # lookupArgs => pc = "idle"
           /\ batchArgs' # batchArgs => pc = "td.getBatch"
           /\ (store' # store \/ written' # written) =>
                /\ pc = "td.cacheBatch" /\ pc' = "td.done"
                /\ \A n \in DOMAIN written' :
                     /\ written'[n] \in DOMAIN store'
                     /\ store'[written'[n]].expires = time + config.cacheExpiration ]_vars

\* a call with two missing texts, looked up once, translated in two requests,
\* stored and reconstructed
C27_Witness ==
  /\ pc = "td.done"
  /\ lookupArgs = << texts >>
  /\ failedOps = {}
  /\ Len(textsToTranslate) = 2
  /\ Len(requests) = 2 /\ Len(answers) = 2
  /\ Len(written) = 2
  /\ result # document

\* C28: every request translateBatch sends to the provider carries at most
\* batchSize texts (10 when it is unset), under every provider and for every
\* batchSize that is not negative.
C28_RequestsWithinBatchSize ==
  config.batchSize >= 0 =>
    \A n \in DOMAIN requests : Len(requests[n]) <= BatchSize(config)

\* ceil(n / b), for b other than zero
Ceil(n, b) == IF b > 0 THEN (n + b - 1) \div b ELSE 0 - (n \div (0 - b))
\* the k-th chunk of size b of a list
Chunk(list, k, b) ==
  SubSeq(list, (k - 1) * b + 1, IF k * b < Len(list) THEN k * b ELSE Len(list))

\* C29: under openai, translateBatch over n texts sends the chunks of batchSize
\* texts (10 when it is unset or zero) in input order, each after the answer to
\* the one before and after the delay that follows that answer, never more
\* than ceil(n / batchSize) of them, and goes on to the rest of the call right
\* after the answer to the last chunk, with no delay.
C29_ChunksInOrderWithDelay ==
  /\ []( (config.aiProvider = "openai" /\ pc \in DocumentPcs) =>
           LET b == BatchSize(config)
               n == Len(textsToTranslate)
           IN /\ Len(requests) <= Ceil(n, b)
              /\ \A k \in DOMAIN requests : requests[k] = Chunk(textsToTranslate, k, b)
              /\ Len(requests) - Len(answers) \in {0, 1}
              /\ pc = "td.request" => Len(requests) = Len(answers) + 1
              /\ pc \in {"td.delay", "td.cacheBatch"} => Len(requests) = Len(answers)
              /\ pc = "td.delay" => Len(requests) < Ceil(n, b)
              /\ pc = "td.cacheBatch" => Len(requests) = Ceil(n, b) )
  /\ [][ (config.aiProvider = "openai" /\ requests' # requests /\ pc' \in DocumentPcs) =>
           /\ Len(requests') = Len(requests) + 1
           /\ \/ pc = "td.getBatch" /\ requests = <<>>
              \/ pc = "td.delay" /\ requests # <<>> ]_vars

\* C30: connecting is lazy and happens once: an operation called while
\* isConnected is not set connects before it goes to the store, client.connect()
\* is called only on a closed socket, never on one that is open or opening, and
\* no operation ends with its connect rejected as a duplicate.
C30_ConnectOnceAndLazily ==
  /\ [](\A o \in 1..MaxOps :
          ~(ops[o].duplicate /\ ops[o].outcome = "connectRejected"))
  /\ [][\A o \in 1..MaxOps :
          /\ (ops[o].pc = "idle" /\ ops'[o].pc = "connecting") => client = "closed"
          /\ (ops[o].pc = "idle" /\ ops'[o].pc # "idle" /\ ~isConnected) =>
               ops'[o].pc = "connecting"]_vars

\* an optional + and then 1 to 16 digits, whatever the first
IsPurePhoneNumber(s) ==
  LET d == IF s # <<>> /\ s[1] = "+" THEN Tail(s) ELSE s
  IN /\ Len(d) \in 1..(PhoneMaxMoreDigits + 1)
     /\ \A n \in DOMAIN d : IsDigit(d[n])

\* C32: shouldTranslate returns false for every string made of an optional
\* leading + and 1 to 16 digits, whatever the first digit is, 0 included.
C32_RejectsPurePhoneNumbers ==
  (pc = "st.done" /\ IsPurePhoneNumber(text)) => Rejects

\* the paths of the leaves of a record, in pre-order: the keys of an object in
\* the order of Object.keys, the elements of an array by index
RECURSIVE PreOrder(_, _)
PreOrder(obj, path) ==
  CASE obj.tag = "array" ->
         Flatten([n \in DOMAIN obj.items |-> PreOrder(obj.items[n], IndexPath(path, n))])
    [] obj.tag = "object" ->
         Flatten([n \in DOMAIN obj.keys |->
                    PreOrder(obj.items[n], KeyPath(path, obj.keys[n]))])
    [] OTHER -> << path >>

\* where a path stands in a list of paths
PositionOf(list, p) == CHOOSE n \in DOMAIN list : list[n] = p

\* the record with every string leaf replaced by the one text Hi, which the
\* locator collects wherever it comes to it
RECURSIVE Probe(_)
Probe(obj) ==
  CASE obj.tag = "string" -> Str(Hi)
    [] obj.tag = "array" -> Arr([n \in DOMAIN obj.items |-> Probe(obj.items[n])])
    [] obj.tag = "object" -> Obj(obj.keys, [n \in DOMAIN obj.items |-> Probe(obj.items[n])])
    [] OTHER -> obj

\* the string leaves the locator comes to
VisitedPaths(doc, opts) == LocatedPaths(Probe(doc), opts)

\* the string leaves reconstruction replaces when the mapping has their text
ReplaceablePaths(doc, opts) ==
  LET probe == Probe(doc)
      marked == reconstructDocumentWithTranslations(probe, << <<Hi, <<"x">> \o Hi>> >>, opts)
  IN { l.path : l \in { m \in DocLeaves(probe) : LeafAt(marked, m.path) # m.leaf } }

\* the leaves that differ between a record and its reconstruction
ChangedPaths(doc, rebuilt) ==
  { l.path : l \in { m \in DocLeaves(doc) : LeafAt(rebuilt, m.path) # m.leaf } }

\* C31: extractTextFromDocument returns the candidate texts in pre-order, the
\* same at every call, and reconstructDocumentWithTranslations selects the same
\* fields: the string leaves it may replace are those the locator came to, and
\* the leaves it did replace are among them.
C31_SameSelectionInPreOrder ==
  pc = "te.reconstructed" =>
    LET pushed == extractFromObject(document, <<>>, options.fields, options.excludeFields)
        order == PreOrder(document, <<>>)
    IN /\ texts = extractTextFromDocument(document, options)
       /\ Len(texts) = Len(pushed)
       /\ \A n \in DOMAIN pushed :
            /\ \E k \in DOMAIN order : order[k] = pushed[n][1]
            /\ texts[n] = Trim(LeafAt(document, pushed[n][1]).s)
            /\ pushed[n][1] \in VisitedPaths(document, options)
       /\ \A m \in DOMAIN pushed : \A n \in DOMAIN pushed :
            m < n => PositionOf(order, pushed[m][1]) < PositionOf(order, pushed[n][1])
       /\ ReplaceablePaths(document, options) = VisitedPaths(document, options)
       /\ ChangedPaths(document, result) \subseteq VisitedPaths(document, options)

\* a record with two fields of which the selector takes one: the text of that
\* one is located and replaced, the other is neither located nor replaced
C31_Witness ==
  /\ pc = "te.reconstructed"
  /\ document = Obj(<<kA, kB>>, <<Str(Hi), Str(Hi)>>)
  /\ options.fields = Present(<<kA>>)
  /\ texts = << Hi >>
  /\ VisitedPaths(document, options) = { kA }
  /\ ChangedPaths(document, result) = { kA }

\* C33: a clearCache called without a target language removes nothing and
\* completes without error: every entry of every pair of languages is in the
\* store afterwards with the value and the expiry it had, and is read as before.
C33_ClearWithoutTargetRemovesNothing ==
  [][ (pc = "cs.ready" /\ cacheCall'.op = "clearCache" /\ Falsy(cacheCall'.targetLanguage)) =>
        /\ pc' = "cs.cleared"
        /\ ~cacheCall'.failed
        /\ store' = store
        /\ \A a \in ClearAddresses :
             getCachedTranslation(store', time', a[1], a[2], a[3])
               = getCachedTranslation(store, time, a[1], a[2], a[3]) ]_vars

\* clearCache("en") has completed on a store that holds entries of the source
\* language en, and they are still there
C33_Witness ==
  /\ pc = "cs.cleared"
  /\ cacheCall.op = "clearCache"
  /\ cacheCall.sourceLanguage = en
  /\ cacheCall.targetLanguage = Undefined
  /\ ~cacheCall.failed
  /\ generateCacheKey(Hi, en, es) \in DOMAIN store
  /\ Cardinality(DOMAIN store) >= 2
====
